---- MODULE Spec2Model ----
(***************************************************************************)
(* Model of the evorun record-store connection pool (evorun-db.js) and of  *)
(* the record routes of the browser server (evorun-browser-server.js).     *)
(*                                                                         *)
(* Objects created by the program (Database handles, api objects, timers)  *)
(* are identified by the number of the getRunDB call that created them:    *)
(* call n creates the genome handle 2n-1, the feature handle 2n, the api n *)
(* and the timer n.                                                        *)
(***************************************************************************)
EXTENDS Integers, Sequences, FiniteSets, TLC

\* ------------------------------------------------------------------ bounds
\* number of getRunDB calls that create an object (handle, api or timer)
MaxCalls == 2
\* number of clock steps of the model
MaxTicks == 3

\* nesting depth of the wrappers of the values handed to the record decoder
MaxNest == 2
\* depth of the directory trees handed to the discovery
MaxDepth == 2
\* number of run directories a summary request finds
MaxRuns == 2

\* --------------------------------------------------------- program constants
DB_TIMEOUT == 30 * 60 * 1000
\* the clock of the model advances by half an idle window
TickMs == DB_TIMEOUT \div 2
MaxNow == MaxTicks * TickMs

\* JavaScript null for a handle, an api or a timer
NULL == 0

\* ------------------------------------------------------------- file system
\* the run directories under the root
RunPaths == {"run1", "run2"}

\* state of the two store files of a run directory: "absent", "ok", "damaged"
\* (opens, and holds a row whose data column does not decode) or "unopenable"
\* (present, but new Database(...) throws)
Layout(genomes, features) ==
  ("genomes.sqlite" :> genomes) @@ ("features.sqlite" :> features)

\* the contents of the root directory the program is started on
Disks ==
  { ("run1" :> Layout("ok", "damaged"))    @@ ("run2" :> Layout("absent", "ok")),
    ("run1" :> Layout("ok", "absent"))     @@ ("run2" :> Layout("absent", "absent")),
    ("run1" :> Layout("ok", "unopenable")) @@ ("run2" :> Layout("unopenable", "absent")) }

VARIABLES
  disk,     \* run directory -> state of its store files (does not change)
  dbPool,   \* Map runPath -> [api, genomesDb, featuresDb, timeout]
  dbs,      \* every Database object created: handle -> [runPath, open, reclosed]
  apis,     \* every api object returned: api -> [runPath, genomesDb, featuresDb]
  timers,   \* pending timers: timer -> [runPath, deadline]
  calls,    \* number of object-creating getRunDB calls so far
  now,      \* the clock, in milliseconds
  alive,    \* FALSE once the process has exited
  req,      \* the in-flight /data request (suspended at an await)
  lastGet,  \* runPath -> time and api of the latest getRunDB of a pooled path
  lastOp,   \* the most recent operation and what its caller observed
  stored,   \* a data column value handed to the record decoder, and its origin
  decoded,  \* what the lookup made of the stored column value
  ulids,    \* a pair of identifiers handed to decodeULIDTimestamp
  stamps,   \* the results of decoding the two identifiers
  tree,     \* the directory tree under the root handed to the discovery
  scanned,  \* what scanEvorunDirectories returned and which directories it read
  sumReq,   \* a GET /evoruns/summary request and what the server finds on disk
  sumRes,   \* the response to the summary request
  webReq,   \* a request to the file or sync endpoints and the server it reaches
  webRes    \* the response to it and what the handler did to the filesystem

\* the pool and its clients
poolVars == <<disk, dbPool, dbs, apis, timers, calls, now, alive, req, lastGet, lastOp>>
\* the inputs and results of the functions that are checked on their own
decoderVars == <<stored, decoded>>
ulidVars == <<ulids, stamps>>
scanVars == <<tree, scanned>>
summaryVars == <<sumReq, sumRes>>
webVars == <<webReq, webRes>>
pureVars == <<decoderVars, ulidVars, scanVars, summaryVars, webVars>>

vars == <<disk, dbPool, dbs, apis, timers, calls, now, alive, req, lastGet, lastOp,
          pureVars>>

StoreFile(runPath, file) ==
  IF runPath \in DOMAIN disk THEN disk[runPath][file] ELSE "absent"

\* mutant: the probe reports every store file as present
existsSync_always(runPath, file) == TRUE

existsSync(runPath, file) == StoreFile(runPath, file) # "absent"

\* ids a lookup may ask for, and the ids stored in every store that opens
ULIDs == {"id1", "id2"}
StoredIds(runPath, file) ==
  CASE StoreFile(runPath, file) = "ok" -> {"id1"}
    [] StoreFile(runPath, file) = "damaged" -> {"id1", "id2"}
    [] OTHER -> {}

\* ----------------------------------------------------------- record decoding
\* Byte sequences and JSON values are written as sequences of tokens.
\*   bytes:  <<"gz">> \o b      the gzip stream of the bytes b
\*           <<"json">> \o v    the UTF-8 JSON text of the value v
\*           <<"raw">>, <<>>    bytes that are neither
\*   values: <<"null">>, <<"1">>, <<"obj">> (an object such as a genome),
\*           <<"badwrap">>      {type: "Buffer", data: "x"}, data not an array
\*           <<"pbuf">> \o b    {type: "Buffer", data: [the bytes b]}
JSNull == <<"null">>
JsonAtoms == {JSNull, <<"1">>, <<"obj">>, <<"badwrap">>}

gzip(bytes) == <<"gz">> \o bytes
JSONstringify(value) == <<"json">> \o value
pseudoBuffer(bytes) == <<"pbuf">> \o bytes

\* a call that returns a value or throws
Ret(value) == [threw |-> FALSE, value |-> value]
Thrown == [threw |-> TRUE, value |-> JSNull]

\* zlib.gunzip / zlib.gunzipSync: throws unless the bytes are a gzip stream
gunzip(bytes) ==
  IF Len(bytes) > 0 /\ Head(bytes) = "gz" THEN Ret(Tail(bytes)) ELSE Thrown

\* JSON.parse(bytes.toString()): throws unless the bytes are a JSON text
JSONparse(bytes) ==
  IF /\ Len(bytes) > 1
     /\ Head(bytes) = "json"
     /\ bytes[2] \in {"null", "1", "obj", "badwrap", "pbuf"}
  THEN Ret(Tail(bytes)) ELSE Thrown

\* v && v.type === 'Buffer' && Array.isArray(v.data)
isPseudoBuffer(value) == Len(value) > 0 /\ Head(value) = "pbuf"
\* Buffer.from(v.data)
BufferFrom(value) == Tail(value)

\* a data column value: a Buffer holding bytes, or another JavaScript value
Column(isBuffer, v) == [isBuffer |-> isBuffer, v |-> v]

\* normalisation of row.data to a Buffer
toBuffer(column) ==
  IF column.isBuffer THEN Ret(column.v)
  ELSE IF isPseudoBuffer(column.v) THEN Ret(BufferFrom(column.v))
  ELSE Thrown

\* mutant: the wrapped bytes are parsed as text, never decompressed
unwrapInner_noGunzip(parsedData) ==
  LET innerBuffer == BufferFrom(parsedData)
      s == JSONparse(innerBuffer)
  IN IF ~s.threw THEN s.value ELSE parsedData

\* mutant: bytes that neither decompress nor parse give null
unwrapInner_nullOnFailure(parsedData) ==
  LET innerBuffer == BufferFrom(parsedData)
      g == gunzip(innerBuffer)
      a == IF g.threw THEN Thrown ELSE JSONparse(g.value)
      s == JSONparse(innerBuffer)
  IN IF ~a.threw THEN a.value
     ELSE IF ~s.threw THEN s.value
     ELSE JSNull

\* the parsed value has the pseudo-buffer shape: decompress and parse its
\* bytes, else parse them as text, else return the wrapper
unwrapInner(parsedData) ==
  LET innerBuffer == BufferFrom(parsedData)
      g == gunzip(innerBuffer)
      a == IF g.threw THEN Thrown ELSE JSONparse(g.value)
      s == JSONparse(innerBuffer)
  IN IF ~a.threw THEN a.value
     ELSE IF ~s.threw THEN s.value
     ELSE parsedData

\* the body of the try block of a lookup
decodeBody(column) ==
  LET n == toBuffer(column)
      g == IF n.threw THEN Thrown ELSE gunzip(n.value)
      p == IF g.threw THEN Thrown ELSE JSONparse(g.value)
  IN IF p.threw THEN Thrown
     ELSE IF isPseudoBuffer(p.value) THEN Ret(unwrapInner(p.value))
     ELSE Ret(p.value)

\* mutant: the error of the try block reaches the caller
decodeRow_noCatch(column) == decodeBody(column)

\* try { ... } catch (err) { console.error(...); return null; }
decodeRow(column) ==
  LET r == decodeBody(column)
  IN IF r.threw THEN Ret(JSNull) ELSE r

\* the data column of the row of an id in a store: every store that opens
\* holds a well-formed record for id1, a damaged store holds bytes that are
\* not a gzip stream for id2
StoredRow(runPath, file, id) ==
  IF id = "id1" THEN Column(TRUE, gzip(JSONstringify(<<"obj">>)))
  ELSE Column(TRUE, <<"raw">>)

\* what a lookup returns for a row it found, as its caller classifies it
rowResult(column) ==
  LET r == decodeRow(column)
  IN IF r.threw THEN "throw" ELSE IF r.value = JSNull THEN "null" ELSE "value"

\* ----------------------------------------------------------------- helpers
Truthy(runPath) == runPath # ""

GenomeHandle(n) == 2 * n - 1
FeatureHandle(n) == 2 * n

Remove(f, k) == [x \in (DOMAIN f) \ {k} |-> f[x]]
EmptyMap == [x \in {} |-> NULL]

\* Database.prototype.close(); reclosed records a close() call on a handle
\* that was closed before
closeDb(d, h) ==
  IF h = NULL THEN d
  ELSE [d EXCEPT ![h].open = FALSE, ![h].reclosed = @ \/ ~d[h].open]

clearTimeout(tm, t) == IF t \in DOMAIN tm THEN Remove(tm, t) ELSE tm

setTimeout(tm, t, runPath) ==
  tm @@ (t :> [runPath |-> runPath, deadline |-> now + DB_TIMEOUT])

NoChange(ret) ==
  [ret |-> ret, api |-> NULL, dbPool |-> dbPool, dbs |-> dbs, apis |-> apis,
   timers |-> timers, calls |-> calls]

\* ---------------------------------------------------------------- getRunDB
\* the branch of getRunDB for a path that is in the pool: re-arm and return
poolHit(runPath) ==
  LET entry == dbPool[runPath]
      t == calls + 1
  IN [ret |-> "api", api |-> entry.api,
      dbPool |-> [dbPool EXCEPT ![runPath].timeout = t],
      dbs |-> dbs, apis |-> apis,
      timers |-> setTimeout(clearTimeout(timers, entry.timeout), t, runPath),
      calls |-> t]

\* the branch of getRunDB for a path that is not in the pool
openRun(runPath) ==
  LET gs == StoreFile(runPath, "genomes.sqlite")
      fs == StoreFile(runPath, "features.sqlite")
      genomesDbExists == existsSync(runPath, "genomes.sqlite")
      featuresDbExists == existsSync(runPath, "features.sqlite")
      n == calls + 1
      \* new Database(genomesDbPath) throws for an unopenable file
      gFail == gs = "unopenable"
      genomesDb == IF genomesDbExists /\ ~gFail THEN GenomeHandle(n) ELSE NULL
      \* new Database(featuresDbPath) is reached only if the first open returned
      fFail == ~gFail /\ fs = "unopenable"
      featuresDb == IF featuresDbExists /\ ~gFail /\ ~fFail
                    THEN FeatureHandle(n) ELSE NULL
      opened == {h \in {genomesDb, featuresDb} : h # NULL}
      dbsOpened == dbs @@ [h \in opened |->
                             [runPath |-> runPath, open |-> TRUE, reclosed |-> FALSE]]
  IN IF ~genomesDbExists /\ ~featuresDbExists
     THEN NoChange("null")
     ELSE IF gFail \/ fFail
     THEN [ret |-> "throw", api |-> NULL, dbPool |-> dbPool,
           dbs |-> dbsOpened, apis |-> apis, timers |-> timers,
           calls |-> IF opened = {} THEN calls ELSE n]
     ELSE [ret |-> "api", api |-> n,
           dbPool |-> (runPath :> [api |-> n, genomesDb |-> genomesDb,
                                   featuresDb |-> featuresDb, timeout |-> n])
                      @@ dbPool,
           dbs |-> dbsOpened,
           apis |-> apis @@ (n :> [runPath |-> runPath, genomesDb |-> genomesDb,
                                   featuresDb |-> featuresDb]),
           timers |-> setTimeout(timers, n, runPath),
           calls |-> n]

\* mutant: the pool is not consulted, every call opens the stores again
getRunDB_noReuse(runPath) == openRun(runPath)

getRunDB(runPath) ==
  IF runPath \in DOMAIN dbPool THEN poolHit(runPath) ELSE openRun(runPath)

\* --------------------------------------------------------------- closeRunDB
\* mutant: the feature handle of the entry is not closed
closeRunDB_leakFeatures(pool, d, tm, runPath) ==
  IF runPath \in DOMAIN pool
  THEN LET entry == pool[runPath]
       IN [dbPool |-> Remove(pool, runPath),
           dbs |-> closeDb(d, entry.genomesDb),
           timers |-> clearTimeout(tm, entry.timeout)]
  ELSE [dbPool |-> pool, dbs |-> d, timers |-> tm]

closeRunDB(pool, d, tm, runPath) ==
  IF runPath \in DOMAIN pool
  THEN LET entry == pool[runPath]
       IN [dbPool |-> Remove(pool, runPath),
           dbs |-> closeDb(closeDb(d, entry.genomesDb), entry.featuresDb),
           timers |-> clearTimeout(tm, entry.timeout)]
  ELSE [dbPool |-> pool, dbs |-> d, timers |-> tm]

\* ------------------------------------------------------ closeAllConnections
RECURSIVE closeEntries(_, _, _)
closeEntries(pool, d, paths) ==
  IF paths = {} THEN d
  ELSE LET p == CHOOSE x \in paths : TRUE
           entry == pool[p]
       IN closeEntries(pool, closeDb(closeDb(d, entry.genomesDb), entry.featuresDb),
                       paths \ {p})

closeAllConnections(pool, d, tm) ==
  [dbPool |-> EmptyMap,
   dbs |-> closeEntries(pool, d, DOMAIN pool),
   timers |-> [t \in {x \in DOMAIN tm : \A p \in DOMAIN pool : pool[p].timeout # x}
               |-> tm[t]]]

\* -------------------------------------------------------------- api.close()
\* mutant: close() leaves the entry of its path in the pool
apiClose_keepEntry(a) ==
  LET api == apis[a]
  IN [dbPool |-> dbPool,
      dbs |-> closeDb(closeDb(dbs, api.genomesDb), api.featuresDb),
      timers |-> timers]

apiClose(a) ==
  LET api == apis[a]
  IN [dbPool |-> IF Truthy(api.runPath) /\ api.runPath \in DOMAIN dbPool
                 THEN Remove(dbPool, api.runPath) ELSE dbPool,
      dbs |-> closeDb(closeDb(dbs, api.genomesDb), api.featuresDb),
      timers |-> timers]

hasGenomeDb(api) == api.genomesDb # NULL
hasFeatureDb(api) == api.featuresDb # NULL

\* ------------------------------------------------------------ record lookups
\* result of api.getGenome(id) / api.getGenomeSync(id) when the handles are in
\* state d: "null", "value" (the decoded record) or "throw" (the statement of a
\* closed connection raises)
\* mutant: no guard for an absent genome store, the null statement raises
getGenome_noGuard(d, api, id) ==
  IF api.genomesDb = NULL THEN "throw"
  ELSE IF ~d[api.genomesDb].open THEN "throw"
  ELSE IF id \notin StoredIds(api.runPath, "genomes.sqlite") THEN "null"
  ELSE rowResult(StoredRow(api.runPath, "genomes.sqlite", id))

getGenome(d, api, id) ==
  IF api.genomesDb = NULL THEN "null"
  ELSE IF ~d[api.genomesDb].open THEN "throw"
  ELSE IF id \notin StoredIds(api.runPath, "genomes.sqlite") THEN "null"
  ELSE rowResult(StoredRow(api.runPath, "genomes.sqlite", id))

getFeature(d, api, id) ==
  IF api.featuresDb = NULL THEN "null"
  ELSE IF ~d[api.featuresDb].open THEN "throw"
  ELSE IF id \notin StoredIds(api.runPath, "features.sqlite") THEN "null"
  ELSE rowResult(StoredRow(api.runPath, "features.sqlite", id))

getGenomeSync(d, api, id) ==
  IF api.genomesDb = NULL THEN "null"
  ELSE IF ~d[api.genomesDb].open THEN "throw"
  ELSE IF id \notin StoredIds(api.runPath, "genomes.sqlite") THEN "null"
  ELSE rowResult(StoredRow(api.runPath, "genomes.sqlite", id))

getFeatureSync(d, api, id) ==
  IF api.featuresDb = NULL THEN "null"
  ELSE IF ~d[api.featuresDb].open THEN "throw"
  ELSE IF id \notin StoredIds(api.runPath, "features.sqlite") THEN "null"
  ELSE rowResult(StoredRow(api.runPath, "features.sqlite", id))

\* the id listings catch the error of a closed connection and return []
listAllGenomeIds(d, api) ==
  IF api.genomesDb = NULL THEN {}
  ELSE IF ~d[api.genomesDb].open THEN {}
  ELSE StoredIds(api.runPath, "genomes.sqlite")

listAllFeatureGenomeIds(d, api) ==
  IF api.featuresDb = NULL THEN {}
  ELSE IF ~d[api.featuresDb].open THEN {}
  ELSE StoredIds(api.runPath, "features.sqlite")

\* a statement or listing was executed on a connection that is closed
UsesClosed(d, h) == h # NULL /\ ~d[h].open


\* ------------------------------------------------------------------ ghosts
Op(op, runPath, ret, id, status, notOpen) ==
  [op |-> op, runPath |-> runPath, ret |-> ret, id |-> id, status |-> status,
   notOpen |-> notOpen]

NoGet == [at |-> -1, api |-> NULL]

\* lastGet keeps, for pooled paths only, the time of the latest getRunDB that
\* returned the pooled api, and that api
Touch(lg, pool, runPath, hit, api) ==
  [p \in RunPaths |->
     IF p \notin DOMAIN pool THEN NoGet
     ELSE IF p = runPath /\ hit THEN [at |-> now, api |-> api]
     ELSE lg[p]]

NoReq == [pc |-> "idle", folderName |-> "", ulid |-> "", db |-> NULL, genome |-> FALSE]

\* -------------------------------------------------------------------- Init
NotStored == [how |-> "none", x |-> JSNull, column |-> Column(FALSE, JSNull)]
NotDecoded == [fn |-> "none", threw |-> FALSE, value |-> JSNull]

\* nothing is handed to the functions that are checked on their own
DecoderIdle ==
  /\ stored = NotStored
  /\ decoded = NotDecoded

UlidIdle ==
  /\ ulids = <<>>
  /\ stamps = <<>>

ScanIdle ==
  /\ tree = <<>>
  /\ scanned = <<>>

SummaryIdle ==
  /\ sumReq = <<>>
  /\ sumRes = <<>>

WebIdle ==
  /\ webReq = <<>>
  /\ webRes = <<>>

PureIdle == DecoderIdle /\ UlidIdle /\ ScanIdle /\ SummaryIdle /\ WebIdle

PoolInit ==
  /\ disk \in Disks
  /\ dbPool = EmptyMap
  /\ dbs = EmptyMap
  /\ apis = EmptyMap
  /\ timers = EmptyMap
  /\ calls = 0
  /\ now = 0
  /\ alive = TRUE
  /\ req = NoReq
  /\ lastGet = [p \in RunPaths |-> NoGet]
  /\ lastOp = Op("init", "", "", NULL, 0, FALSE)

Init == PoolInit /\ PureIdle

\* the pool at rest, for the functions that are checked on their own
PoolAtRest == PoolInit /\ disk = CHOOSE d \in Disks : TRUE

\* ------------------------------------------------------------ pool actions
\* an object-creating call needs a free call number and a timer that can
\* still expire within the modelled clock range
CanCall == calls < MaxCalls /\ now + DB_TIMEOUT <= MaxNow

Apply(r) ==
  /\ dbPool' = r.dbPool
  /\ dbs' = r.dbs
  /\ timers' = r.timers

ApplyGet(r, runPath) ==
  /\ Apply(r)
  /\ apis' = r.apis
  /\ calls' = r.calls
  /\ lastGet' = Touch(lastGet, r.dbPool, runPath, r.ret = "api", r.api)

GetRunDB(runPath) ==
  /\ alive
  /\ CanCall
  /\ LET r == getRunDB(runPath)
     IN /\ ApplyGet(r, runPath)
        /\ lastOp' = Op("getRunDB", runPath, r.ret, r.api, 0, FALSE)
  /\ UNCHANGED <<pureVars, disk, now, alive, req>>

CloseRunDB(runPath) ==
  /\ alive
  /\ runPath \in DOMAIN dbPool
  /\ LET r == closeRunDB(dbPool, dbs, timers, runPath)
     IN /\ Apply(r)
        /\ lastGet' = Touch(lastGet, r.dbPool, runPath, FALSE, NULL)
        /\ lastOp' = Op("closeRunDB", runPath, "closed", NULL, 0, FALSE)
  /\ UNCHANGED <<pureVars, disk, apis, calls, now, alive, req>>

CloseAllConnections ==
  /\ alive
  /\ LET r == closeAllConnections(dbPool, dbs, timers)
     IN /\ Apply(r)
        /\ lastGet' = Touch(lastGet, r.dbPool, "", FALSE, NULL)
        /\ lastOp' = Op("closeAllConnections", "", "", NULL, 0, FALSE)
  /\ UNCHANGED <<pureVars, disk, apis, calls, now, alive, req>>

\* SIGINT / SIGTERM: closeAllConnections(); process.exit(0), whose 'exit'
\* event runs closeAllConnections once more
ProcessSignal ==
  /\ alive
  /\ LET r1 == closeAllConnections(dbPool, dbs, timers)
         r2 == closeAllConnections(r1.dbPool, r1.dbs, r1.timers)
     IN /\ Apply(r2)
        /\ lastGet' = Touch(lastGet, r2.dbPool, "", FALSE, NULL)
        /\ lastOp' = Op("exit", "", "", NULL, 0, FALSE)
  /\ alive' = FALSE
  /\ req' = NoReq
  /\ UNCHANGED <<pureVars, disk, apis, calls, now>>

ApiClose(a) ==
  /\ alive
  /\ a \in DOMAIN apis
  /\ LET r == apiClose(a)
     IN /\ Apply(r)
        /\ lastGet' = Touch(lastGet, r.dbPool, apis[a].runPath, FALSE, NULL)
        /\ lastOp' = Op("api.close", apis[a].runPath, "", a, 0, FALSE)
  /\ UNCHANGED <<pureVars, disk, apis, calls, now, alive, req>>

\* the callback () => closeRunDB(runPath) of a due timer
TimerFires(t) ==
  /\ alive
  /\ t \in DOMAIN timers
  /\ now >= timers[t].deadline
  /\ LET runPath == timers[t].runPath
         r == closeRunDB(dbPool, dbs, Remove(timers, t), runPath)
     IN /\ Apply(r)
        /\ lastGet' = Touch(lastGet, r.dbPool, runPath, FALSE, NULL)
        /\ lastOp' = Op("timer", runPath,
                        IF runPath \in DOMAIN dbPool THEN "closed" ELSE "noop",
                        t, 0, FALSE)
  /\ UNCHANGED <<pureVars, disk, apis, calls, now, alive, req>>

Tick ==
  /\ alive
  /\ now < MaxNow
  /\ now' = now + TickMs
  /\ UNCHANGED <<pureVars, disk, dbPool, dbs, apis, timers, calls, alive, req, lastGet, lastOp>>

\* a holder of a returned api calls one of its lookups
lookup(fn, d, api, id) ==
  CASE fn = "getGenome" -> getGenome(d, api, id)
    [] fn = "getFeature" -> getFeature(d, api, id)
    [] fn = "getGenomeSync" -> getGenomeSync(d, api, id)
    [] fn = "getFeatureSync" -> getFeatureSync(d, api, id)

LookupFns == {"getGenome", "getFeature", "getGenomeSync", "getFeatureSync"}

ApiLookup(a, fn, id) ==
  /\ alive
  /\ a \in DOMAIN apis
  /\ lastOp' = Op(fn, apis[a].runPath, lookup(fn, dbs, apis[a], id), a, 0,
                  UsesClosed(dbs, IF fn \in {"getGenome", "getGenomeSync"}
                                  THEN apis[a].genomesDb ELSE apis[a].featuresDb))
  /\ UNCHANGED <<pureVars, disk, dbPool, dbs, apis, timers, calls, now, alive, req, lastGet>>

PoolNext ==
  \/ \E runPath \in RunPaths : GetRunDB(runPath)
  \/ \E runPath \in RunPaths : CloseRunDB(runPath)
  \/ CloseAllConnections
  \/ ProcessSignal
  \/ \E a \in 1..MaxCalls : ApiClose(a)
  \/ \E t \in 1..MaxCalls : TimerFires(t)
  \/ Tick

LookupNext ==
  \E a \in 1..MaxCalls, fn \in LookupFns, id \in ULIDs : ApiLookup(a, fn, id)

\* ------------------------------------------------------------ record routes
\* folder names a request may carry; "missing" names no directory
FolderNames == RunPaths \cup {"missing"}
NoPath == ""

\* path.join(rootDir, folderName) when that directory exists, else null
findEvorunPath(folderName) ==
  IF folderName \in RunPaths THEN folderName ELSE NoPath

\* resolvedPath.startsWith(resolvedRoot)
startsWithRoot(evorunPath) == evorunPath \in RunPaths

Res(status, ret, notOpen) == [status |-> status, ret |-> ret, notOpen |-> notOpen]

\* the part of every record route before getRunDB returns: "go" when the
\* route goes on with the api r.api, else the response
\* mutant: an error of getRunDB is caught and answered like a missing store
Prelude_swallowOpenError(folderName) ==
  LET evorunPath == findEvorunPath(folderName)
  IN IF evorunPath = NoPath
     THEN [go |-> FALSE, res |-> Res(404, "Evorun directory not found", FALSE),
           r |-> NoChange("none")]
     ELSE IF ~startsWithRoot(evorunPath)
     THEN [go |-> FALSE, res |-> Res(403, "Access denied", FALSE),
           r |-> NoChange("none")]
     ELSE LET r == getRunDB(evorunPath)
          IN IF r.ret \in {"throw", "null"}
             THEN [go |-> FALSE, res |-> Res(404, "No databases found", FALSE), r |-> r]
             ELSE [go |-> TRUE, res |-> Res(0, "", FALSE), r |-> r]

Prelude(folderName) ==
  LET evorunPath == findEvorunPath(folderName)
  IN IF evorunPath = NoPath
     THEN [go |-> FALSE, res |-> Res(404, "Evorun directory not found", FALSE),
           r |-> NoChange("none")]
     ELSE IF ~startsWithRoot(evorunPath)
     THEN [go |-> FALSE, res |-> Res(403, "Access denied", FALSE),
           r |-> NoChange("none")]
     ELSE LET r == getRunDB(evorunPath)
          IN IF r.ret = "throw"
             THEN [go |-> FALSE, res |-> Res(500, "Failed to retrieve", FALSE), r |-> r]
             ELSE IF r.ret = "null"
             THEN [go |-> FALSE, res |-> Res(404, "No databases found", FALSE), r |-> r]
             ELSE [go |-> TRUE, res |-> Res(0, "", FALSE), r |-> r]

Respond(route, folderName, p, res) ==
  /\ ApplyGet(p.r, findEvorunPath(folderName))
  /\ lastOp' = Op(route, folderName, res.ret, p.r.api, res.status, res.notOpen)

\* GET /evoruns/:folderName/genome/:ulid
genomeResponse(p, ulid) ==
  IF ~p.go THEN p.res
  ELSE LET api == p.r.apis[p.r.api]
           g == getGenome(p.r.dbs, api, ulid)
           used == UsesClosed(p.r.dbs, api.genomesDb)
       IN IF ~hasGenomeDb(api) THEN Res(404, "Genome database not found", FALSE)
          ELSE IF g = "throw" THEN Res(500, "Failed to retrieve", used)
          ELSE IF g = "null" THEN Res(404, "Genome not found", used)
          ELSE Res(200, "genome", used)

RouteGenome(folderName, ulid) ==
  /\ alive
  /\ CanCall
  /\ LET p == Prelude(folderName)
     IN Respond("GET genome", folderName, p, genomeResponse(p, ulid))
  /\ UNCHANGED <<pureVars, disk, now, alive, req>>

\* GET /evoruns/:folderName/features/:ulid
featuresResponse(p, ulid) ==
  IF ~p.go THEN p.res
  ELSE LET api == p.r.apis[p.r.api]
           f == getFeature(p.r.dbs, api, ulid)
           used == UsesClosed(p.r.dbs, api.featuresDb)
       IN IF ~hasFeatureDb(api) THEN Res(404, "Features database not found", FALSE)
          ELSE IF f = "throw" THEN Res(500, "Failed to retrieve", used)
          ELSE IF f = "null" THEN Res(404, "Features not found", used)
          ELSE Res(200, "features", used)

RouteFeatures(folderName, ulid) ==
  /\ alive
  /\ CanCall
  /\ LET p == Prelude(folderName)
     IN Respond("GET features", folderName, p, featuresResponse(p, ulid))
  /\ UNCHANGED <<pureVars, disk, now, alive, req>>

\* GET /evoruns/:folderName/data/:ulid, second half: the feature lookup on
\* the api obtained before the await, then the response
dataFinish(d, api, ulid, genome, usedBefore) ==
  LET f == IF hasFeatureDb(api) THEN getFeature(d, api, ulid) ELSE "null"
      used == usedBefore \/ (hasFeatureDb(api) /\ UsesClosed(d, api.featuresDb))
  IN IF ~genome /\ f # "value" THEN Res(404, "No data found", used)
     ELSE Res(200, IF genome /\ f = "value" THEN "genome+features"
                   ELSE IF genome THEN "genome" ELSE "features", used)

\* first half: up to the await of db.getGenome(ulid).  The handler is
\* suspended across the event loop only when a row was found and is being
\* decompressed; otherwise it goes on within the same turn.
RouteDataStart(folderName, ulid) ==
  /\ alive
  /\ CanCall
  /\ req.pc = "idle"
  /\ LET p == Prelude(folderName)
     IN IF ~p.go
        THEN /\ Respond("GET data", folderName, p, p.res)
             /\ req' = req
        ELSE LET api == p.r.apis[p.r.api]
                 g == IF hasGenomeDb(api) THEN getGenome(p.r.dbs, api, ulid) ELSE "null"
                 used == hasGenomeDb(api) /\ UsesClosed(p.r.dbs, api.genomesDb)
             IN IF g = "value"
                THEN /\ ApplyGet(p.r, findEvorunPath(folderName))
                     /\ req' = [pc |-> "awaitGenome", folderName |-> folderName,
                                ulid |-> ulid, db |-> p.r.api, genome |-> TRUE]
                     /\ lastOp' = Op("GET data", folderName, "await", p.r.api, 0, used)
                ELSE /\ Respond("GET data", folderName, p,
                                dataFinish(p.r.dbs, api, ulid, FALSE, used))
                     /\ req' = req
  /\ UNCHANGED <<pureVars, disk, now, alive>>

RouteDataResume ==
  /\ alive
  /\ req.pc = "awaitGenome"
  /\ LET res == dataFinish(dbs, apis[req.db], req.ulid, req.genome, FALSE)
     IN lastOp' = Op("GET data", req.folderName, res.ret, req.db, res.status, res.notOpen)
  /\ req' = NoReq
  /\ UNCHANGED <<pureVars, disk, dbPool, dbs, apis, timers, calls, now, alive, lastGet>>

\* GET /evoruns/:folderName/ids?type=...
idsResponse(p, type) ==
  IF ~p.go THEN p.res
  ELSE LET api == p.r.apis[p.r.api]
           wantG == type \in {"all", "genomes"}
           wantF == type \in {"all", "features"}
           g == IF wantG /\ hasGenomeDb(api) THEN listAllGenomeIds(p.r.dbs, api) ELSE {}
           f == IF wantF /\ hasFeatureDb(api)
                THEN listAllFeatureGenomeIds(p.r.dbs, api) ELSE {}
           used == \/ wantG /\ UsesClosed(p.r.dbs, api.genomesDb)
                   \/ wantF /\ UsesClosed(p.r.dbs, api.featuresDb)
       IN Res(200, IF g \cup f = {} THEN "no ids" ELSE "ids", used)

RouteIds(folderName, type) ==
  /\ alive
  /\ CanCall
  /\ LET p == Prelude(folderName)
     IN Respond("GET ids", folderName, p, idsResponse(p, type))
  /\ UNCHANGED <<pureVars, disk, now, alive, req>>

RouteNext ==
  \/ \E f \in FolderNames, u \in ULIDs : RouteGenome(f, u)
  \/ \E f \in FolderNames, u \in ULIDs : RouteFeatures(f, u)
  \/ \E f \in FolderNames, u \in ULIDs : RouteDataStart(f, u)
  \/ RouteDataResume
  \/ \E f \in FolderNames, type \in {"all", "genomes", "features"} : RouteIds(f, type)

Next == PoolNext \/ RouteNext

\* the pool and the record routes
Spec == Init /\ [][Next]_vars

\* the pool and the holders of returned apis calling their lookups
ApiNext == PoolNext \/ LookupNext
ApiSpec == Init /\ [][ApiNext]_vars

\* the holders of returned apis calling their lookups while paths are
\* opened and closed, with the clock standing still
HolderNext ==
  \/ \E runPath \in RunPaths : GetRunDB(runPath)
  \/ \E runPath \in RunPaths : CloseRunDB(runPath)
  \/ \E a \in 1..MaxCalls : ApiClose(a)
  \/ LookupNext
HolderSpec == Init /\ [][HolderNext]_vars

\* the pool under the scheduling of the event loop: time passes and a due
\* timer's callback runs
FairSpec ==
  /\ Init
  /\ [][PoolNext]_vars
  /\ WF_vars(Tick)
  /\ \A t \in 1..MaxCalls : WF_vars(TimerFires(t))

\* ------------------------------------------------- record decoder on its own
RECURSIVE ByteSeqs(_), JsonValues(_)
\* JSON values with at most n nested pseudo-buffer wrappers
JsonValues(n) ==
  IF n = 0 THEN JsonAtoms
  ELSE JsonAtoms \cup {pseudoBuffer(b) : b \in ByteSeqs(n - 1)}
\* byte sequences built by at most n encoding steps
ByteSeqs(n) ==
  IF n = 0 THEN {<<>>, <<"raw">>}
  ELSE {<<>>, <<"raw">>} \cup {gzip(b) : b \in ByteSeqs(n - 1)}
                         \cup {JSONstringify(v) : v \in JsonValues(n - 1)}

\* the values a data column can hold
ColumnValues ==
  {Column(TRUE, b) : b \in ByteSeqs(MaxNest + 1)}
    \cup {Column(FALSE, v) : v \in JsonValues(MaxNest)}

\* the rows handed to the decoder: the gzip of the JSON text of x, the
\* double-wrapped record of x, a wrapper of any bytes, or any column value
StoredInputs ==
  {[how |-> "gzipJson", x |-> x, column |-> Column(TRUE, gzip(JSONstringify(x)))] :
     x \in JsonValues(MaxNest)}
  \cup {[how |-> "doubleWrap", x |-> x,
         column |-> Column(TRUE, gzip(JSONstringify(pseudoBuffer(gzip(JSONstringify(x))))))] :
     x \in JsonValues(MaxNest)}
  \cup {[how |-> "wrapped", x |-> JSNull,
         column |-> Column(TRUE, gzip(JSONstringify(pseudoBuffer(b))))] :
     b \in ByteSeqs(MaxNest)}
  \cup {[how |-> "column", x |-> JSNull, column |-> c] : c \in ColumnValues}

DecodeInit ==
  /\ PoolAtRest
  /\ stored \in StoredInputs
  /\ decoded = NotDecoded
  /\ UlidIdle
  /\ ScanIdle
  /\ SummaryIdle
  /\ WebIdle

\* one of the four lookups has found the row and decodes its data column
DecodeStored(fn) ==
  /\ decoded = NotDecoded
  /\ LET r == decodeRow(stored.column)
     IN decoded' = [fn |-> fn, threw |-> r.threw, value |-> r.value]
  /\ UNCHANGED <<poolVars, stored, ulidVars, scanVars, summaryVars, webVars>>

DecodeNext == \E fn \in LookupFns : DecodeStored(fn)

DecodeSpec == DecodeInit /\ [][DecodeNext]_vars

\* ------------------------------------------------------ identifier timestamps
\* the characters [0-9A-Z] in the order of their character codes
CodeOrder ==
  << "0", "1", "2", "3", "4", "5", "6", "7", "8", "9",
     "A", "B", "C", "D", "E", "F", "G", "H", "I", "J", "K", "L", "M",
     "N", "O", "P", "Q", "R", "S", "T", "U", "V", "W", "X", "Y", "Z" >>

\* s.indexOf(char), counted from 0; -1 when char does not occur
indexOf(s, char) ==
  IF \E i \in 1..Len(s) : s[i] = char
  THEN (CHOOSE i \in 1..Len(s) : s[i] = char /\ \A j \in 1..(i - 1) : s[j] # char) - 1
  ELSE -1

\* the characters that occur in names and keys, in the order of their codes
Charset ==
  <<"-">> \o CodeOrder \o
  << "_", "a", "b", "c", "d", "e", "f", "g", "h", "i", "j", "k", "l", "m",
     "n", "o", "p", "q", "r", "s", "t", "u", "v", "w", "x", "y", "z" >>

\* a < b for strings written as sequences of characters
StringLess(a, b) ==
  \E i \in 1..Len(b) :
    /\ \A j \in 1..(i - 1) : j <= Len(a) /\ a[j] = b[j]
    /\ \/ i > Len(a)
       \/ indexOf(Charset, a[i]) < indexOf(Charset, b[i])

\* mutant: the last two symbols of the alphabet change places
base32Chars_swapped ==
  << "0", "1", "2", "3", "4", "5", "6", "7", "8", "9",
     "A", "B", "C", "D", "E", "F", "G", "H", "J", "K", "M", "N",
     "P", "Q", "R", "S", "T", "V", "W", "X", "Z", "Y" >>

base32Chars ==
  << "0", "1", "2", "3", "4", "5", "6", "7", "8", "9",
     "A", "B", "C", "D", "E", "F", "G", "H", "J", "K", "M", "N",
     "P", "Q", "R", "S", "T", "V", "W", "X", "Y", "Z" >>

\* ulid.substring(0, 10)
TimestampChars == 10
substring(s, from, to) ==
  SubSeq(s, from + 1, IF to < Len(s) THEN to ELSE Len(s))

\* A timestamp in milliseconds is kept as whole days, seconds of the day and
\* milliseconds of the second: timestamp = (days * 86400 + secs) * 1000 + ms
\* (a JavaScript number holds the up to 50 bits exactly).
SecsPerDay == 86400
Stamp(days, secs, ms) ==
  [threw |-> FALSE, char |-> "", days |-> days, secs |-> secs, ms |-> ms]
InvalidChar(char) == [threw |-> TRUE, char |-> char, days |-> 0, secs |-> 0, ms |-> 0]

\* timestamp = timestamp * 32 + value
accumulate(t, value) ==
  LET ms == t.ms * 32 + value
      secs == t.secs * 32 + (ms \div 1000)
  IN Stamp(t.days * 32 + (secs \div SecsPerDay), secs % SecsPerDay, ms % 1000)

\* mutant: a character outside the alphabet counts as the digit 0
RECURSIVE decodeLoop_noCheck(_, _, _)
decodeLoop_noCheck(timestampPart, i, timestamp) ==
  IF i > Len(timestampPart) THEN timestamp
  ELSE LET value == indexOf(base32Chars, timestampPart[i])
       IN decodeLoop_noCheck(timestampPart, i + 1,
                             accumulate(timestamp, IF value = -1 THEN 0 ELSE value))

RECURSIVE decodeLoop(_, _, _)
\* the for loop over timestampPart from position i (counted from 1)
decodeLoop(timestampPart, i, timestamp) ==
  IF i > Len(timestampPart) THEN timestamp
  ELSE LET value == indexOf(base32Chars, timestampPart[i])
       IN IF value = -1 THEN InvalidChar(timestampPart[i])
          ELSE decodeLoop(timestampPart, i + 1, accumulate(timestamp, value))

\* the time value of the Date returned, or the Error thrown
decodeULIDTimestamp(ulid) ==
  decodeLoop(substring(ulid, 0, TimestampChars), 1, Stamp(0, 0, 0))

\* a <= b for two decoded timestamps
StampLeq(a, b) ==
  \/ a.days < b.days
  \/ a.days = b.days /\ a.secs < b.secs
  \/ a.days = b.days /\ a.secs = b.secs /\ a.ms <= b.ms

\* identifiers of 26 characters: "0" everywhere but at the first and the
\* last position of the timestamp part and of the random part
IdLen == 26
VaryAt == {1, TimestampChars, TimestampChars + 1, IdLen}
AlphabetSample == {"0", "Y", "Z"}
ExcludedChars == {"I", "L", "O", "U"}
IdsOver(chars) ==
  {[i \in 1..IdLen |-> IF i \in VaryAt THEN f[i] ELSE "0"] : f \in [VaryAt -> chars]}
ValidIds == IdsOver(AlphabetSample)
AnyIds == IdsOver(AlphabetSample \cup ExcludedChars)

UlidInit ==
  /\ PoolAtRest
  /\ DecoderIdle
  /\ ScanIdle
  /\ SummaryIdle
  /\ WebIdle
  /\ ulids \in (ValidIds \X ValidIds) \cup {<<a, a>> : a \in AnyIds}
  /\ stamps = <<>>

\* both identifiers are decoded
DecodeULIDs ==
  /\ stamps = <<>>
  /\ stamps' = <<decodeULIDTimestamp(ulids[1]), decodeULIDTimestamp(ulids[2])>>
  /\ UNCHANGED <<poolVars, decoderVars, scanVars, summaryVars, webVars, ulids>>

\* the first identifier is decoded once more
DecodeAgain ==
  /\ Len(stamps) = 2
  /\ stamps' = Append(stamps, decodeULIDTimestamp(ulids[1]))
  /\ UNCHANGED <<poolVars, decoderVars, scanVars, summaryVars, webVars, ulids>>

UlidNext == DecodeULIDs \/ DecodeAgain

UlidSpec == UlidInit /\ [][UlidNext]_vars

\* ------------------------------------------------------------------- dates
\* year, month and day of the day number z counted from 1970-01-01
civilFromDays(z) ==
  LET era == (z + 719468) \div 146097
      doe == (z + 719468) % 146097
      yoe == (doe - doe \div 1460 + doe \div 36524 - doe \div 146096) \div 365
      doy == doe - (365 * yoe + yoe \div 4 - yoe \div 100)
      mp == (5 * doy + 2) \div 153
  IN [year |-> yoe + era * 400 + (IF mp < 10 THEN 0 ELSE 1),
      month |-> IF mp < 10 THEN mp + 3 ELSE mp - 9,
      day |-> doy - (153 * mp + 2) \div 5 + 1]

\* the day number of a calendar date
daysFromCivil(year, month, day) ==
  LET y == IF month <= 2 THEN year - 1 ELSE year
      era == y \div 400
      yoe == y - era * 400
      mp == IF month > 2 THEN month - 3 ELSE month + 9
      doy == (153 * mp + 2) \div 5 + day - 1
      doe == yoe * 365 + yoe \div 4 - yoe \div 100 + doy
  IN era * 146097 + doe - 719468

\* the wall clock of a Date in the zone of the server, tz minutes east of UTC
LocalTime(date, tz) ==
  LET s == date.secs + tz * 60
  IN [days |-> date.days + (s \div SecsPerDay), secs |-> s % SecsPerDay, ms |-> date.ms]

getFullYear(date, tz) == civilFromDays(LocalTime(date, tz).days).year
\* date.getMonth() + 1
getMonth1(date, tz) == civilFromDays(LocalTime(date, tz).days).month
getDate(date, tz) == civilFromDays(LocalTime(date, tz).days).day

RECURSIVE Digits(_)
\* n.toString() for n >= 0
Digits(n) ==
  IF n < 10 THEN <<CodeOrder[n + 1]>>
  ELSE Append(Digits(n \div 10), CodeOrder[(n % 10) + 1])

RECURSIVE padStart(_, _)
\* s.padStart(width, '0')
padStart(s, width) == IF Len(s) >= width THEN s ELSE padStart(<<"0">> \o s, width)

\* Math.ceil(((date - startOfYear) / 86400000 + startOfYear.getDay() + 1) / 7)
\* with startOfYear = new Date(year, 0, 1), the local midnight of January 1
weekNumber(date, tz) ==
  LET local == LocalTime(date, tz)
      year == civilFromDays(local.days).year
      jan1 == daysFromCivil(year, 1, 1)
      getDay == (jan1 + 4) % 7
      wholeDays == local.days - jan1 + getDay + 1
  IN IF local.secs = 0 /\ local.ms = 0
     THEN (wholeDays + 6) \div 7
     ELSE (wholeDays \div 7) + 1

formatDateByGranularity(date, granularity, tz) ==
  LET month == padStart(Digits(getMonth1(date, tz)), 2)
  IN Digits(getFullYear(date, tz)) \o <<"-">> \o
       (CASE granularity = "day" ->
               month \o <<"-">> \o padStart(Digits(getDate(date, tz)), 2)
          [] granularity = "week" ->
               <<"W">> \o padStart(Digits(weekNumber(date, tz)), 2)
          [] OTHER -> month)

\* date.toISOString(), for the years 0 to 9999
toISOString(date) ==
  LET c == civilFromDays(date.days)
  IN padStart(Digits(c.year), 4) \o <<"-">> \o padStart(Digits(c.month), 2) \o <<"-">>
       \o padStart(Digits(c.day), 2) \o <<"T">>
       \o padStart(Digits(date.secs \div 3600), 2) \o <<":">>
       \o padStart(Digits((date.secs % 3600) \div 60), 2) \o <<":">>
       \o padStart(Digits(date.secs % 60), 2) \o <<".">>
       \o padStart(Digits(date.ms), 3) \o <<"Z">>

RECURSIVE parseInt(_)
\* the number written by a sequence of digits
parseInt(s) ==
  IF Len(s) = 0 THEN 0
  ELSE parseInt(SubSeq(s, 1, Len(s) - 1)) * 10 + indexOf(CodeOrder, s[Len(s)])

\* new Date(iso) for the text of toISOString
DateParse(iso) ==
  Stamp(daysFromCivil(parseInt(SubSeq(iso, 1, 4)), parseInt(SubSeq(iso, 6, 7)),
                      parseInt(SubSeq(iso, 9, 10))),
        parseInt(SubSeq(iso, 12, 13)) * 3600 + parseInt(SubSeq(iso, 15, 16)) * 60
          + parseInt(SubSeq(iso, 18, 19)),
        parseInt(SubSeq(iso, 21, 23)))

\* ---------------------------------------------------------------- discovery
\* A directory entry name is its text before the first "_" and the parts
\* that follow, each preceded by "_"; the lead and the parts are sequences of
\* characters.
Name(lead, parts) == [lead |-> lead, parts |-> parts]
FailedGenes == <<"f", "a", "i", "l", "e", "d", "-", "g", "e", "n", "e", "s">>
RunPart == <<"r", "u", "n">>

\* /^[0-9A-Z]{26}_/.test(name)
ulidPatternTest(name) ==
  /\ Len(name.lead) = IdLen
  /\ \A i \in 1..IdLen : indexOf(CodeOrder, name.lead[i]) # -1
  /\ Len(name.parts) > 0

\* mutant: no name counts as carrying the suffix
endsWithFailedGenes_never(name) == FALSE

\* name.endsWith('_failed-genes')
endsWithFailedGenes(name) ==
  Len(name.parts) > 0 /\ name.parts[Len(name.parts)] = FailedGenes

\* A directory is the sequence of entry numbers that leads to it from the
\* root. The trees have a spine root/1/1/... of MaxDepth entries and, next to
\* every entry of the spine, one sibling that readdir lists after it.
EntriesPerDir == 2
SpinePath(n) == [i \in 1..n |-> 1]
SiblingPath(n) == [i \in 1..n |-> IF i = n THEN 2 ELSE 1]
TreePaths == {SpinePath(n) : n \in 1..MaxDepth} \cup {SiblingPath(n) : n \in 1..MaxDepth}
RootDir == <<>>

Id26(first) == [i \in 1..IdLen |-> IF i = 1 THEN first ELSE "0"]
Entry(exists, name, isDirectory, listable) ==
  [exists |-> exists, name |-> name, isDirectory |-> isDirectory, listable |-> listable]
NoEntry == Entry(FALSE, Name(<<>>, <<>>), FALSE, FALSE)
RunDir == Entry(TRUE, Name(Id26("0"), <<RunPart>>), TRUE, TRUE)
FailedDir == Entry(TRUE, Name(Id26("0"), <<RunPart, FailedGenes>>), TRUE, TRUE)
PlainDir == Entry(TRUE, Name(<<"c", "a", "t">>, <<>>), TRUE, TRUE)
LockedDir == Entry(TRUE, Name(<<"c", "a", "t">>, <<>>), TRUE, FALSE)
PlainFailedDir == Entry(TRUE, Name(<<"c", "a", "t">>, <<FailedGenes>>), TRUE, TRUE)
BareIdDir == Entry(TRUE, Name(Id26("0"), <<>>), TRUE, TRUE)
RunFile == Entry(TRUE, Name(Id26("0"), <<RunPart>>), FALSE, FALSE)
SpineEntries ==
  {NoEntry, RunDir, FailedDir, PlainDir, LockedDir, PlainFailedDir, BareIdDir, RunFile}
SiblingEntries == {NoEntry, RunDir, FailedDir}

\* the trees: an entry exists only inside a directory
Trees ==
  {t \in [TreePaths \cup {RootDir} -> SpineEntries] :
     /\ t[RootDir] \in {PlainDir, LockedDir}
     /\ \A n \in 1..MaxDepth :
          /\ t[SiblingPath(n)] \in SiblingEntries
          /\ ~t[SpinePath(n - 1)].isDirectory
               => t[SpinePath(n)] = NoEntry /\ t[SiblingPath(n)] = NoEntry}

\* the result of a scan so far: the folders pushed, and as a record of the
\* execution the directories read and those whose listing failed
ScanAcc(evorunFolders, recursed, warned) ==
  [evorunFolders |-> evorunFolders, recursed |-> recursed, warned |-> warned]

RECURSIVE scanDirectory_abort(_, _, _), scanEntries_abort(_, _, _, _)
\* mutant: a listing error ends the whole scan
scanEntries_abort(t, currentDir, i, acc) ==
  IF i > EntriesPerDir \/ Append(currentDir, i) \notin DOMAIN t \/ acc.warned # {} THEN acc
  ELSE LET fullPath == Append(currentDir, i)
           entry == t[fullPath]
       IN IF ~entry.exists \/ ~entry.isDirectory
          THEN scanEntries_abort(t, currentDir, i + 1, acc)
          ELSE IF ulidPatternTest(entry.name)
          THEN scanEntries_abort(t, currentDir, i + 1,
                 IF ~endsWithFailedGenes(entry.name)
                 THEN [acc EXCEPT !.evorunFolders =
                         Append(@, [fullPath |-> fullPath, folderName |-> entry.name])]
                 ELSE acc)
          ELSE scanEntries_abort(t, currentDir, i + 1,
                 scanDirectory_abort(t, fullPath,
                                     [acc EXCEPT !.recursed = @ \cup {fullPath}]))
scanDirectory_abort(t, currentDir, acc) ==
  IF ~t[currentDir].listable
  THEN [acc EXCEPT !.warned = @ \cup {currentDir}]
  ELSE scanEntries_abort(t, currentDir, 1, acc)

RECURSIVE scanDirectory(_, _, _), scanEntries(_, _, _, _)
\* for (const entry of entries) from entry i on
scanEntries(t, currentDir, i, acc) ==
  IF i > EntriesPerDir \/ Append(currentDir, i) \notin DOMAIN t THEN acc
  ELSE LET fullPath == Append(currentDir, i)
           entry == t[fullPath]
       IN IF ~entry.exists \/ ~entry.isDirectory
          THEN scanEntries(t, currentDir, i + 1, acc)
          ELSE IF ulidPatternTest(entry.name)
          THEN scanEntries(t, currentDir, i + 1,
                 IF ~endsWithFailedGenes(entry.name)
                 THEN [acc EXCEPT !.evorunFolders =
                         Append(@, [fullPath |-> fullPath, folderName |-> entry.name])]
                 ELSE acc)
          ELSE scanEntries(t, currentDir, i + 1,
                 scanDirectory(t, fullPath, [acc EXCEPT !.recursed = @ \cup {fullPath}]))
\* try { entries = await fs.readdir(currentDir) ... } catch { console.warn }
scanDirectory(t, currentDir, acc) ==
  IF ~t[currentDir].listable
  THEN [acc EXCEPT !.warned = @ \cup {currentDir}]
  ELSE scanEntries(t, currentDir, 1, acc)

scanEvorunDirectories(t) == scanDirectory(t, RootDir, ScanAcc(<<>>, {RootDir}, {}))

ScanInit ==
  /\ PoolAtRest
  /\ DecoderIdle
  /\ UlidIdle
  /\ SummaryIdle
  /\ WebIdle
  /\ tree \in Trees
  /\ scanned = <<>>

ScanTree ==
  /\ scanned = <<>>
  /\ scanned' = <<scanEvorunDirectories(tree)>>
  /\ UNCHANGED <<poolVars, decoderVars, ulidVars, summaryVars, webVars, tree>>

ScanNext == ScanTree

ScanSpec == ScanInit /\ [][ScanNext]_vars

\* ------------------------------------------------------------------ summary
RECURSIVE Join(_)
\* parts.join('_')
Join(parts) ==
  IF Len(parts) = 0 THEN <<>>
  ELSE IF Len(parts) = 1 THEN parts[1]
  ELSE parts[1] \o <<"_">> \o Join(Tail(parts))

\* folderName.split('_'): the folder name itself when it has no "_", else
\* parts.slice(1).join('_')
extractEvorunName(folderName) ==
  IF Len(folderName.parts) = 0 THEN folderName.lead ELSE Join(folderName.parts)

\* A JavaScript object is the sequence of its own entries [key, value] in
\* the order of their creation. Its keys are enumerated with the canonical
\* array indices first, in numeric order, then the others in that order.
IsArrayIndex(key) ==
  /\ Len(key) > 0
  /\ \A i \in 1..Len(key) : indexOf(CodeOrder, key[i]) \in 0..9
  /\ Len(key) = 1 \/ key[1] # "0"
  /\ \/ Len(key) < 10
     \/ Len(key) = 10 /\ ~StringLess(<<"4", "2", "9", "4", "9", "6", "7", "2", "9", "4">>, key)

NumericLess(a, b) == Len(a) < Len(b) \/ (Len(a) = Len(b) /\ StringLess(a, b))

RECURSIVE sortIndices(_)
sortIndices(S) ==
  IF S = {} THEN <<>>
  ELSE LET m == CHOOSE x \in S : \A y \in S \ {x} : NumericLess(x, y)
       IN <<m>> \o sortIndices(S \ {m})

RECURSIVE sortStrings(_)
\* keys.sort(): ascending in the order of the character codes
sortStrings(S) ==
  IF S = {} THEN <<>>
  ELSE LET m == CHOOSE x \in S : \A y \in S \ {x} : StringLess(x, y)
       IN <<m>> \o sortStrings(S \ {m})

reverse(seq) == [i \in 1..Len(seq) |-> seq[Len(seq) + 1 - i]]

KeysOf(obj) == {obj[i].key : i \in 1..Len(obj)}
Get(obj, key) == obj[CHOOSE i \in 1..Len(obj) : obj[i].key = key].value
\* obj[key] = value
Put(obj, key, value) ==
  IF key \in KeysOf(obj)
  THEN [i \in 1..Len(obj) |-> IF obj[i].key = key THEN [key |-> key, value |-> value]
                                                 ELSE obj[i]]
  ELSE Append(obj, [key |-> key, value |-> value])

\* Object.keys(obj), the order in which JSON.stringify writes the entries
ObjectKeys(obj) ==
  sortIndices({k \in KeysOf(obj) : IsArrayIndex(k)})
    \o SelectSeq([i \in 1..Len(obj) |-> obj[i].key], LAMBDA k : ~IsArrayIndex(k))

\* names that an empty object inherits from Object.prototype
InheritedNames ==
  { <<"t", "o", "S", "t", "r", "i", "n", "g">>,
    <<"v", "a", "l", "u", "e", "O", "f">>,
    <<"c", "o", "n", "s", "t", "r", "u", "c", "t", "o", "r">> }

\* if (!names[evorunName]) names[evorunName] = []; names[evorunName].push(run)
\* an inherited name is truthy and has no push: the TypeError leaves names as
\* they were
pushRun(names, evorunName, run) ==
  IF evorunName \in KeysOf(names)
  THEN Put(names, evorunName, Append(Get(names, evorunName), run))
  ELSE IF evorunName \in InheritedNames THEN names
  ELSE Put(names, evorunName, <<run>>)

\* the body of the loop over evorunFolders for one folder; a folder whose
\* identifier does not decode, or whose name group cannot be created, is
\* skipped with a warning
groupFolder(groupedRuns, folder, granularity, tz) ==
  IF ~ulidPatternTest(folder.folderName) THEN groupedRuns
  ELSE LET ulid == folder.folderName.lead
           date == decodeULIDTimestamp(ulid)
       IN IF date.threw THEN groupedRuns
          ELSE LET dateKey == formatDateByGranularity(date, granularity, tz)
                   withDate == IF dateKey \in KeysOf(groupedRuns) THEN groupedRuns
                               ELSE Put(groupedRuns, dateKey, <<>>)
               IN Put(withDate, dateKey,
                      pushRun(Get(withDate, dateKey),
                              extractEvorunName(folder.folderName),
                              [ulid |-> ulid, folderName |-> folder.folderName,
                               relativePath |-> folder.relativePath,
                               timestamp |-> toISOString(date)]))

RECURSIVE groupFolders(_, _, _, _, _)
\* for (const folder of evorunFolders) from folder i on
groupFolders(groupedRuns, evorunFolders, i, granularity, tz) ==
  IF i > Len(evorunFolders) THEN groupedRuns
  ELSE groupFolders(groupFolder(groupedRuns, evorunFolders[i], granularity, tz),
                    evorunFolders, i + 1, granularity, tz)

\* x is placed behind the runs that the comparator
\* (a, b) => new Date(b.timestamp) - new Date(a.timestamp) does not put after it
insertRun(sorted, x) ==
  LET before == {i \in 1..Len(sorted) :
                   StampLeq(DateParse(x.timestamp), DateParse(sorted[i].timestamp))}
      n == Cardinality(before)
  IN SubSeq(sorted, 1, n) \o <<x>> \o SubSeq(sorted, n + 1, Len(sorted))

RECURSIVE sortRuns(_)
\* runs.sort(comparator), a stable sort
sortRuns(runs) ==
  IF Len(runs) = 0 THEN <<>>
  ELSE insertRun(sortRuns(SubSeq(runs, 1, Len(runs) - 1)), runs[Len(runs)])

RECURSIVE putSorted(_, _, _)
\* sortedResult[dateKey][nameKey] = runs.sort(...), for the name keys from i on
putSorted(sortedNames, names, sortedNameKeys) ==
  IF Len(sortedNameKeys) = 0 THEN sortedNames
  ELSE putSorted(Put(sortedNames, Head(sortedNameKeys),
                     sortRuns(Get(names, Head(sortedNameKeys)))),
                 names, Tail(sortedNameKeys))

RECURSIVE sortResult(_, _, _)
\* the loop over sortedDateKeys that fills sortedResult
sortResult(sortedResult, groupedRuns, sortedDateKeys) ==
  IF Len(sortedDateKeys) = 0 THEN sortedResult
  ELSE LET dateKey == Head(sortedDateKeys)
           names == Get(groupedRuns, dateKey)
           sortedNameKeys == sortStrings({k \in KeysOf(names) : TRUE})
       IN sortResult(Put(sortedResult, dateKey, putSorted(<<>>, names, sortedNameKeys)),
                     groupedRuns, Tail(sortedDateKeys))

\* the entries of an object of objects in the order of res.json
Written(obj) ==
  LET keys == ObjectKeys(obj)
  IN [i \in 1..Len(keys) |->
        LET names == Get(obj, keys[i])
            nameKeys == ObjectKeys(names)
        IN [key |-> keys[i],
            names |-> [j \in 1..Len(nameKeys) |->
                         [key |-> nameKeys[j], runs |-> Get(names, nameKeys[j])]]]]

\* mutant: a fourth granularity is let through
Granularities_withYear == {"day", "week", "month", "year"}

\* ['day', 'week', 'month']
Granularities == {"day", "week", "month"}

\* the response, and the number of directory trees scanned to produce it
SumRes(status, granularity, totalRuns, groups, scans) ==
  [status |-> status, granularity |-> granularity, totalRuns |-> totalRuns,
   groups |-> groups, scans |-> scans]

\* POST /config with the body {dateGranularity}: CONFIG afterwards
postConfig(config, dateGranularity) ==
  IF dateGranularity # "" /\ dateGranularity \in Granularities
  THEN [config EXCEPT !.dateGranularity = dateGranularity]
  ELSE config

\* GET /evoruns/summary
summary(r) ==
  LET granularity == IF r.query # "" THEN r.query ELSE r.dateGranularity
      evorunFolders == r.rootFolders \o (IF r.sync = "present" THEN r.syncFolders ELSE <<>>)
      groupedRuns == groupFolders(<<>>, evorunFolders, 1, granularity, r.tz)
      sortedDateKeys == reverse(sortStrings(KeysOf(groupedRuns)))
      sortedResult == sortResult(<<>>, groupedRuns, sortedDateKeys)
  IN IF granularity \notin Granularities THEN SumRes(400, granularity, 0, <<>>, 0)
     ELSE IF ~r.rootAccessible THEN SumRes(404, granularity, 0, <<>>, 0)
     ELSE SumRes(200, granularity, Len(evorunFolders), Written(sortedResult),
                 IF r.sync = "present" THEN 2 ELSE 1)

\* identifiers of the sample runs: 2024-01-15T10:30:45.123Z, 23:59:59.999 of
\* the same day, 2024-02-10T00:00:00.000Z and 2023-12-31T23:59:59.999Z, and
\* one whose timestamp part holds a character outside the alphabet
UlidOf(prefix) == [i \in 1..IdLen |-> IF i <= Len(prefix) THEN prefix[i] ELSE "0"]
UlidJan15 == UlidOf(<<"0", "1", "H", "M", "6", "A", "R", "X", "4", "3">>)
UlidJan15Late == UlidOf(<<"0", "1", "H", "M", "7", "S", "2", "N", "Z", "Z">>)
UlidFeb10 == UlidOf(<<"0", "1", "H", "P", "8", "5", "0", "N", "0", "0">>)
UlidDec31 == UlidOf(<<"0", "1", "H", "K", "1", "5", "3", "W", "Z", "Z">>)
\* 2024-02-10T12:00:00.000Z
UlidFeb10Noon == UlidOf(<<"0", "1", "H", "P", "9", "E", "7", "0", "G", "0">>)
UlidBad == UlidOf(<<"0", "1", "I">>)

\* the run directories a scan may return
SampleFolders ==
  { Name(UlidJan15, << <<"9">> >>),
    Name(UlidJan15Late, << <<"1", "0">> >>),
    Name(UlidDec31, << <<"9">> >>),
    Name(UlidJan15, << <<"a">>, <<"b">> >>),
    Name(UlidJan15Late, << <<"a">>, <<"b">> >>),
    Name(UlidFeb10, << <<>> >>),
    Name(UlidFeb10Noon, << <<"a">>, <<"b">> >>),
    Name(UlidFeb10, << <<"t", "o", "S", "t", "r", "i", "n", "g">> >>),
    Name(UlidBad, << <<"a">> >>) }

\* the requests: query parameter, configured default, zone of the server,
\* and whether the root and the sync directory are there
SumReq(query, dateGranularity, tz, rootAccessible, sync) ==
  [query |-> query, dateGranularity |-> dateGranularity, tz |-> tz,
   rootAccessible |-> rootAccessible, sync |-> sync]
\* the dateGranularity of the bodies posted to /config
ConfigBodies == {"week", "year"}
SampleRequests ==
  { SumReq("day", "month", 0, TRUE, "none"),
    SumReq("week", "month", 0, TRUE, "none"),
    SumReq("month", "month", 0, TRUE, "none"),
    SumReq("", "month", 0, TRUE, "none"),
    SumReq("day", "month", 60, TRUE, "none"),
    SumReq("year", "month", 0, TRUE, "none"),
    SumReq("", "year", 0, TRUE, "none"),
    SumReq("month", "month", 0, TRUE, "missing"),
    SumReq("month", "month", 0, TRUE, "present"),
    SumReq("month", "month", 0, FALSE, "none") }

\* the folders found, in the order of the traversal; with a sync directory
\* the last one was found there
FoundFolders ==
  UNION {[1..n -> SampleFolders] : n \in 0..MaxRuns}
Discovered(names, from, to) ==
  [i \in 1..(to - from + 1) |->
     [folderName |-> names[from + i - 1], relativePath |-> from + i - 1]]

SummaryInit ==
  /\ PoolAtRest
  /\ DecoderIdle
  /\ UlidIdle
  /\ ScanIdle
  /\ WebIdle
  /\ \E q \in SampleRequests, names \in FoundFolders :
       LET split == IF q.sync = "present" /\ Len(names) > 0
                    THEN Len(names) - 1 ELSE Len(names)
       IN sumReq = <<[query |-> q.query, dateGranularity |-> q.dateGranularity,
                      tz |-> q.tz, rootAccessible |-> q.rootAccessible,
                      sync |-> q.sync,
                      rootFolders |-> Discovered(names, 1, split),
                      syncFolders |-> Discovered(names, split + 1, Len(names))]>>
  /\ sumRes = <<>>

Summary ==
  /\ sumReq # <<>>
  /\ sumRes = <<>>
  /\ sumRes' = <<summary(sumReq[1])>>
  /\ UNCHANGED <<poolVars, decoderVars, ulidVars, scanVars, webVars, sumReq>>

\* POST /config before the summary is asked for
PostConfig ==
  /\ sumReq # <<>>
  /\ sumRes = <<>>
  /\ \E dateGranularity \in ConfigBodies :
       sumReq' = <<postConfig(sumReq[1], dateGranularity)>>
  /\ UNCHANGED <<poolVars, decoderVars, ulidVars, scanVars, webVars, sumRes>>

SummaryNext == Summary \/ PostConfig

SummarySpec == SummaryInit /\ [][SummaryNext]_vars

\* -------------------------------------------------------------- file serving
\* A path is the sequence of its segments, each a Name; its text joins them
\* with "/".
NameText(name) ==
  name.lead \o (IF Len(name.parts) = 0 THEN <<>> ELSE <<"_">> \o Join(name.parts))

RECURSIVE PathText(_)
PathText(p) ==
  IF Len(p) = 0 THEN <<>> ELSE <<"/">> \o NameText(Head(p)) \o PathText(Tail(p))

DotDot == Name(<<".", ".">>, <<>>)

RECURSIVE normalize(_, _)
\* the segments of an absolute path with every ".." applied
normalize(done, segments) ==
  IF Len(segments) = 0 THEN done
  ELSE IF Head(segments) = DotDot
  THEN normalize(IF Len(done) = 0 THEN done ELSE SubSeq(done, 1, Len(done) - 1),
                 Tail(segments))
  ELSE normalize(Append(done, Head(segments)), Tail(segments))

\* path.join(a, b) and path.resolve(p) for absolute paths
pathJoin(a, b) == normalize(<<>>, a \o b)
pathResolve(p) == normalize(<<>>, p)

\* s.startsWith(prefix), on the text of the paths
startsWith(s, prefix) == Len(prefix) <= Len(s) /\ SubSeq(s, 1, Len(prefix)) = prefix

\* The server of the file requests: the root directory /d/ev, the plain
\* directory cat in it with one run directory, the directory /d/ev-p next
\* to the root, and a file f in each of them and in /d.
RootDirectory == <<Name(<<"d">>, <<>>), Name(<<"e", "v">>, <<>>)>>
SiblingDir == Name(<<"e", "v", "-", "p">>, <<>>)
FileF == Name(<<"f">>, <<>>)
FilesTree ==
  [p \in TreePaths \cup {RootDir} |->
     IF p = RootDir \/ p = <<1>> THEN PlainDir
     ELSE IF p = <<1, 1>> THEN RunDir ELSE NoEntry]

\* path.join(rootDir, ...) for the entry p of the tree
FullPath(rootDir, t, p) == rootDir \o [i \in 1..Len(p) |-> t[SubSeq(p, 1, i)].name]

Files ==
  { Append(RootDirectory, FileF),
    Append(FullPath(RootDirectory, FilesTree, <<1, 1>>), FileF),
    <<RootDirectory[1], SiblingDir, FileF>>,
    <<RootDirectory[1], FileF>> }

\* fs.stat(path) succeeds and stats.isFile()
isFile(path) == pathResolve(path) \in Files

FileRes(status, sent) == [status |-> status, sent |-> sent]
NothingSent == <<>>

\* the folder of the scan whose folderName is the one asked for, if any
findFolder(evorunFolders, folderName) ==
  SelectSeq(evorunFolders, LAMBDA folder : folder.folderName = folderName)

\* GET /files/*
filesRoute(rootDirectory, t, requestedPath) ==
  LET fullFilePath == pathJoin(rootDirectory, requestedPath)
      resolvedRoot == PathText(pathResolve(rootDirectory))
      found == findFolder(scanEvorunDirectories(t).evorunFolders, Head(requestedPath))
      candidateFilePath == pathJoin(FullPath(rootDirectory, t, found[1].fullPath),
                                    Tail(requestedPath))
  IN IF Len(requestedPath) = 0 THEN FileRes(400, NothingSent)
     ELSE IF ~startsWith(PathText(pathResolve(fullFilePath)), resolvedRoot)
     THEN FileRes(403, NothingSent)
     ELSE IF isFile(fullFilePath) THEN FileRes(200, pathResolve(fullFilePath))
     ELSE IF /\ ulidPatternTest(Head(requestedPath))
             /\ Len(found) > 0
             /\ startsWith(PathText(pathResolve(candidateFilePath)), resolvedRoot)
             /\ isFile(candidateFilePath)
     THEN FileRes(200, pathResolve(candidateFilePath))
     ELSE FileRes(404, NothingSent)

\* the paths asked for: up to MaxSegments segments
MaxSegments == 3
RequestSegments == {DotDot, FileF, SiblingDir, PlainDir.name, RunDir.name}
RequestedPaths == UNION {[1..n -> RequestSegments] : n \in 0..MaxSegments}

GetFile ==
  /\ webReq # <<>>
  /\ webReq[1].route = "files"
  /\ webRes = <<>>
  /\ webRes' = <<filesRoute(RootDirectory, FilesTree, webReq[1].requestedPath)>>
  /\ UNCHANGED <<poolVars, decoderVars, ulidVars, scanVars, summaryVars, webReq>>

\* ------------------------------------------------ locating a run directory
\* CONFIG.syncDirectory: null, a directory next to the root, or one whose
\* name begins with the name of the root. The sync directory holds one run
\* directory of its own.
\* null, for a path
NullPath == <<>>
NoSyncDirectory == NullPath
SyncDirectories ==
  {NoSyncDirectory, <<RootDirectory[1], Name(<<"s", "y">>, <<>>)>>,
   <<RootDirectory[1], SiblingDir>>}
SyncRunDir == Entry(TRUE, Name(Id26("1"), <<RunPart>>), TRUE, TRUE)
SyncTree ==
  [p \in TreePaths \cup {RootDir} |->
     IF p = RootDir THEN PlainDir ELSE IF p = <<1>> THEN SyncRunDir ELSE NoEntry]

\* the tree that readdir walks below dir
TreeOf(dir) == IF dir = RootDirectory THEN FilesTree ELSE SyncTree

\* fs.access(path) succeeds and stats.isDirectory()
isDirectory(syncDirectory, path) ==
  \E dir \in {RootDirectory, syncDirectory} \ {NoSyncDirectory} :
    \E p \in DOMAIN TreeOf(dir) :
      /\ TreeOf(dir)[p].exists
      /\ TreeOf(dir)[p].isDirectory
      /\ FullPath(dir, TreeOf(dir), p) = pathResolve(path)

RECURSIVE searchDirectories(_, _, _, _)
\* for (const dir of searchDirs) from directory i on: the direct path when
\* it is a directory, else the folder of that name found by a scan, else the
\* next directory; null when none is left
searchDirectories(searchDirs, i, syncDirectory, folderName) ==
  IF i > Len(searchDirs) THEN NullPath
  ELSE LET dir == searchDirs[i]
           directPath == pathJoin(dir, <<folderName>>)
           found == findFolder(scanEvorunDirectories(TreeOf(dir)).evorunFolders,
                               folderName)
       IN IF isDirectory(syncDirectory, directPath) THEN directPath
          ELSE IF Len(found) > 0 THEN FullPath(dir, TreeOf(dir), found[1].fullPath)
          ELSE searchDirectories(searchDirs, i + 1, syncDirectory, folderName)

\* findEvorunPath(rootDir, folderName) over the directories on disk
findEvorunPathOnDisk(rootDir, syncDirectory, folderName) ==
  searchDirectories(<<rootDir>> \o (IF syncDirectory # NoSyncDirectory
                                    THEN <<syncDirectory>> ELSE <<>>),
                    1, syncDirectory, folderName)

\* the run directories a summary lists: the scan of the root and, with a
\* sync directory configured and present, the scan of it
listedFolders(rootDir, syncDirectory) ==
  scanEvorunDirectories(TreeOf(rootDir)).evorunFolders
    \o (IF syncDirectory # NoSyncDirectory
        THEN scanEvorunDirectories(TreeOf(syncDirectory)).evorunFolders ELSE <<>>)

LocateRes(status, evorunPath) == [status |-> status, evorunPath |-> evorunPath]
ReachedGetRunDB == 0

\* the record routes up to the call of getRunDB
locateEvorun(rootDirectory, syncDirectory, folderName) ==
  LET evorunPath == findEvorunPathOnDisk(rootDirectory, syncDirectory, folderName)
  IN IF evorunPath = NullPath THEN LocateRes(404, evorunPath)
     ELSE IF ~startsWith(PathText(pathResolve(evorunPath)),
                         PathText(pathResolve(rootDirectory)))
     THEN LocateRes(403, evorunPath)
     ELSE LocateRes(ReachedGetRunDB, evorunPath)

\* the folder names asked for
RequestedFolders == {RunDir.name, SyncRunDir.name, PlainDir.name, FileF}

LocateRun ==
  /\ webReq # <<>>
  /\ webReq[1].route = "record"
  /\ webRes = <<>>
  /\ webRes' = <<locateEvorun(RootDirectory, webReq[1].syncDirectory,
                              webReq[1].folderName)>>
  /\ UNCHANGED <<poolVars, decoderVars, ulidVars, scanVars, summaryVars, webReq>>

\* ----------------------------------------------------------- sync endpoints
\* what syncAuth does with a request: 0 stands for next()
CallNext == 0

\* mutant: without configured keys every request is let through
syncAuth_openWithoutKeys(syncApiKeys, key) ==
  IF syncApiKeys = {} THEN CallNext
  ELSE IF key = "" \/ key \notin syncApiKeys THEN 401
  ELSE CallNext

\* syncAuth, for the configured keys and the x-sync-api-key header ("" when
\* the header is missing or empty)
syncAuth(syncApiKeys, key) ==
  IF syncApiKeys = {} THEN 503
  ELSE IF key = "" \/ key \notin syncApiKeys THEN 401
  ELSE CallNext

\* CONFIG.syncDirectory || CONFIG.rootDirectory
getSyncBaseDir(syncDirectory) ==
  IF syncDirectory # NoSyncDirectory THEN syncDirectory ELSE RootDirectory

AnalysisResults == Name(<<"a", "n", "a", "l", "y", "s", "i", "s">>, <<>>)
GenerationFeatures == Name(<<"g", "e", "n">>, <<>>)
SyncMetadata == Name(<<"m", "e", "t", "a">>, <<>>)

\* the response of a sync endpoint and what the handler did on disk: the
\* directories created, the files written and the directories listed
SyncRes(status, made, written, listed) ==
  [status |-> status, made |-> made, written |-> written, listed |-> listed]
Untouched(status) == SyncRes(status, {}, {}, {})

\* path.resolve(p).startsWith(path.resolve(base))
within(p, base) == startsWith(PathText(pathResolve(p)), PathText(pathResolve(base)))

\* path.basename(fileName)
basename(fileName) == fileName[Len(fileName)]

\* fs.access(targetDir) succeeds: the sync run holds an analysis directory
accessible(syncDirectory, targetDir) ==
  \/ isDirectory(syncDirectory, targetDir)
  \/ pathResolve(targetDir)
       = getSyncBaseDir(syncDirectory) \o <<SyncRunDir.name, AnalysisResults>>

\* POST /api/sync/register/:runId
syncRegister(syncDirectory, runId) ==
  LET runDir == pathJoin(getSyncBaseDir(syncDirectory), <<runId>>)
  IN IF ~within(runDir, getSyncBaseDir(syncDirectory)) THEN Untouched(403)
     ELSE SyncRes(201, {Append(runDir, AnalysisResults), Append(runDir, GenerationFeatures)},
                  {Append(runDir, SyncMetadata)}, {})

\* GET /api/sync/analysis/:runId/list
syncList(syncDirectory, runId, subdir) ==
  LET targetDir == pathJoin(getSyncBaseDir(syncDirectory), <<runId, subdir>>)
  IN IF ~within(targetDir, getSyncBaseDir(syncDirectory)) THEN Untouched(403)
     ELSE IF ~accessible(syncDirectory, targetDir) THEN Untouched(404)
     ELSE SyncRes(200, {}, {}, {targetDir})

\* POST /api/sync/analysis/:runId: a raw upload named by the query, or a
\* multipart body with the files named in it
syncUpload(syncDirectory, runId, subdir, fileName, multipart, files) ==
  LET targetDir == pathJoin(getSyncBaseDir(syncDirectory), <<runId, subdir>>)
      filePath == pathJoin(targetDir, <<basename(fileName)>>)
      filePaths == {pathJoin(targetDir, <<basename(files[i])>>) : i \in 1..Len(files)}
  IN IF Len(fileName) = 0
     THEN IF ~multipart THEN Untouched(400)
          ELSE IF Len(files) = 0 THEN Untouched(400)
          ELSE IF ~within(targetDir, getSyncBaseDir(syncDirectory)) THEN Untouched(403)
          ELSE SyncRes(200, {targetDir}, {f \in filePaths : within(f, targetDir)}, {})
     ELSE IF ~within(targetDir, getSyncBaseDir(syncDirectory)) THEN Untouched(403)
     ELSE IF ~within(filePath, targetDir) THEN Untouched(403)
     ELSE SyncRes(200, {targetDir}, {filePath}, {})

\* a sync endpoint behind syncAuth
syncRoute(r) ==
  LET subdir == IF r.subdir = NullPath THEN AnalysisResults ELSE r.subdir[1]
  IN IF syncAuth(r.syncApiKeys, r.key) # CallNext
     THEN Untouched(syncAuth(r.syncApiKeys, r.key))
     ELSE CASE r.endpoint = "register" -> syncRegister(r.syncDirectory, r.runId)
            [] r.endpoint = "list" -> syncList(r.syncDirectory, r.runId, subdir)
            [] OTHER -> syncUpload(r.syncDirectory, r.runId, subdir, r.fileName,
                                   r.multipart, r.files)

\* the sync requests: configured keys, key header, endpoint and parameters
KeySets == {{}, {"k1", "k2"}}
KeyHeaders == {"", "k1", "k3"}
SyncEndpoints == {"register", "list", "upload"}
FileNames == {<<>>, <<FileF>>, <<DotDot, FileF>>}
SyncRequests ==
  {[route |-> "sync", syncApiKeys |-> ks, key |-> k, endpoint |-> e,
    syncDirectory |-> d, runId |-> id, subdir |-> sub, fileName |-> fn,
    multipart |-> mp, files |-> fs] :
     ks \in KeySets, k \in KeyHeaders, e \in SyncEndpoints,
     d \in {NoSyncDirectory, <<RootDirectory[1], SiblingDir>>},
     id \in {SyncRunDir.name, DotDot}, sub \in {NullPath, <<GenerationFeatures>>},
     fn \in FileNames, mp \in BOOLEAN, fs \in {<<>>, <<<<DotDot, FileF>>>>}}

SyncRequest ==
  /\ webReq # <<>>
  /\ webReq[1].route = "sync"
  /\ webRes = <<>>
  /\ webRes' = <<syncRoute(webReq[1])>>
  /\ UNCHANGED <<poolVars, decoderVars, ulidVars, scanVars, summaryVars, webReq>>

\* ------------------------------------------------------ the web requests
WebInit ==
  /\ PoolAtRest
  /\ DecoderIdle
  /\ UlidIdle
  /\ ScanIdle
  /\ SummaryIdle
  /\ webReq \in {<<[route |-> "files", requestedPath |-> p]>> : p \in RequestedPaths}
                \cup {<<[route |-> "record", syncDirectory |-> d, folderName |-> n]>> :
                        d \in SyncDirectories, n \in RequestedFolders}
                \cup {<<r>> : r \in SyncRequests}
  /\ webRes = <<>>

WebNext == GetFile \/ LocateRun \/ SyncRequest

WebSpec == WebInit /\ [][WebNext]_vars

\* ==================================================================== claims

\* C1: a pooled entry is evicted by the idle timer only when a full idle
\* window (DB_TIMEOUT) has elapsed since the most recent getRunDB for its
\* path, and never by a timer armed before that most recent getRunDB (the
\* timer that evicts is the one the entry holds).
C1_SlidingExpiration ==
  [][\A t \in DOMAIN timers :
       (timers[t].runPath \in DOMAIN dbPool /\ TimerFires(t))
         => /\ t = dbPool[timers[t].runPath].timeout
            /\ now >= lastGet[timers[t].runPath].at + DB_TIMEOUT]_vars


\* some operation of this step called getRunDB(p): a direct call or a route
Gets(p) ==
  \/ GetRunDB(p)
  \/ \E u \in ULIDs : RouteGenome(p, u) \/ RouteFeatures(p, u) \/ RouteDataStart(p, u)
  \/ \E type \in {"all", "genomes", "features"} : RouteIds(p, type)

EntryHandles(entry) == {entry.genomesDb, entry.featuresDb} \ {NULL}

\* C2: a getRunDB call for a path whose previous getRunDB returned an api,
\* with no close or idle expiry for the path since, returns that same api,
\* backed by the same handles, which are open; it opens no handle and
\* creates no pool entry.
C2_SameApi ==
  [][\A p \in RunPaths :
       (lastGet[p].api # NULL /\ Gets(p))
         => /\ lastOp'.id = lastGet[p].api
            /\ dbs' = dbs
            /\ apis' = apis
            /\ DOMAIN dbPool' = DOMAIN dbPool
            /\ dbPool'[p].api = lastGet[p].api
            /\ EntryHandles(dbPool'[p]) = EntryHandles(apis[lastGet[p].api])
            /\ \A h \in EntryHandles(dbPool'[p]) : dbs'[h].open]_vars

\* a second getRunDB for a pooled path has just returned the pooled api
C2_Witness ==
  /\ lastOp.op = "getRunDB"
  /\ lastOp.ret = "api"
  /\ lastOp.runPath \in DOMAIN dbPool
  /\ dbPool[lastOp.runPath].api = lastOp.id
  /\ dbPool[lastOp.runPath].timeout > lastOp.id

NoStore(p) ==
  StoreFile(p, "genomes.sqlite") = "absent" /\ StoreFile(p, "features.sqlite") = "absent"

\* C5: getRunDB on a path with neither genomes.sqlite nor features.sqlite
\* returns null and leaves the pool, the handles, the apis and the timers
\* unchanged.
C5_NoStoreNoEntry ==
  [][\A p \in RunPaths :
       (NoStore(p) /\ GetRunDB(p))
         => /\ lastOp'.ret = "null"
            /\ UNCHANGED <<dbPool, dbs, apis, timers, calls>>]_vars

\* getRunDB has returned null for a run directory without stores while
\* another path is pooled
C5_Witness ==
  /\ lastOp.op = "getRunDB"
  /\ NoStore(lastOp.runPath)
  /\ lastOp.ret = "null"
  /\ dbPool # EmptyMap

OnlyFeatures(p) ==
  StoreFile(p, "genomes.sqlite") = "absent" /\ StoreFile(p, "features.sqlite") = "ok"
OnlyGenomes(p) ==
  StoreFile(p, "genomes.sqlite") = "ok" /\ StoreFile(p, "features.sqlite") = "absent"

\* C6: the api of a path that has only features.sqlite reports hasGenomeDb
\* false and hasFeatureDb true, and getGenome / getGenomeSync return null for
\* every id without raising, whatever the state of the handles; symmetrically
\* for a path that has only genomes.sqlite.
C6_SingleStoreApi ==
  /\ \A a \in DOMAIN apis :
       /\ OnlyFeatures(apis[a].runPath)
            => /\ ~hasGenomeDb(apis[a]) /\ hasFeatureDb(apis[a])
               /\ \A id \in ULIDs : /\ getGenome(dbs, apis[a], id) = "null"
                                    /\ getGenomeSync(dbs, apis[a], id) = "null"
       /\ OnlyGenomes(apis[a].runPath)
            => /\ hasGenomeDb(apis[a]) /\ ~hasFeatureDb(apis[a])
               /\ \A id \in ULIDs : /\ getFeature(dbs, apis[a], id) = "null"
                                    /\ getFeatureSync(dbs, apis[a], id) = "null"
  /\ (lastOp.op \in {"getGenome", "getGenomeSync"} /\ OnlyFeatures(lastOp.runPath))
       => lastOp.ret = "null"
  /\ (lastOp.op \in {"getFeature", "getFeatureSync"} /\ OnlyGenomes(lastOp.runPath))
       => lastOp.ret = "null"

\* a holder has looked a genome up through the api of the features-only run
C6_Witness ==
  /\ lastOp.op \in {"getGenome", "getGenomeSync"}
  /\ OnlyFeatures(lastOp.runPath)
  /\ lastOp.ret = "null"

Unopenable(p) ==
  \E file \in {"genomes.sqlite", "features.sqlite"} : StoreFile(p, file) = "unopenable"
RecordRoutes == {"GET genome", "GET features", "GET data", "GET ids"}

\* C7: for a run directory with a store file that cannot be opened, getRunDB
\* raises instead of returning null, and every record route answers 500;
\* getRunDB returns null exactly for the directories with no store file, for
\* which the routes answer 404.
C7_OpenFailedDistinct ==
  /\ lastOp.op = "getRunDB"
       => /\ Unopenable(lastOp.runPath) => lastOp.ret = "throw"
          /\ lastOp.ret = "null" <=> NoStore(lastOp.runPath)
  /\ (lastOp.op \in RecordRoutes /\ lastOp.runPath \in RunPaths)
       => /\ Unopenable(lastOp.runPath) => lastOp.status = 500
          /\ NoStore(lastOp.runPath) => lastOp.status = 404

\* a record route has answered 500 for the run whose store cannot be opened
C7_Witness ==
  /\ lastOp.op = "GET genome"
  /\ Unopenable(lastOp.runPath)
  /\ lastOp.status = 500

\* C8: each opened store handle is closed at most once.
C8_ClosedAtMostOnce ==
  \A h \in DOMAIN dbs : ~dbs[h].reclosed

\* C9: no record lookup or id listing of a request handler is executed on a
\* handle that has been closed, and the getRunDB calls for one path never
\* leave two returned apis of that path with open handles.
C9_NoUseAfterClose ==
  /\ lastOp.op \in RecordRoutes => ~lastOp.notOpen
  /\ \A a1, a2 \in DOMAIN apis :
       (/\ apis[a1].runPath = apis[a2].runPath
        /\ \E h \in EntryHandles(apis[a1]) : dbs[h].open
        /\ \E h \in EntryHandles(apis[a2]) : dbs[h].open) => a1 = a2

\* C10: every open store handle is owned by the pool entry of its path, and
\* that entry has a pending idle timer.
C10_OpenHandleIsPooled ==
  \A h \in DOMAIN dbs :
    dbs[h].open
      => /\ dbs[h].runPath \in DOMAIN dbPool
         /\ h \in EntryHandles(dbPool[dbs[h].runPath])
         /\ dbPool[dbs[h].runPath].timeout \in DOMAIN timers

\* C11: a row whose data is gzip(JSON text of x) decodes to exactly x through
\* each of the four lookups, for every JSON value x, also when x has the
\* pseudo-buffer shape.
C11_RoundTrip ==
  (decoded.fn # "none" /\ stored.how = "gzipJson")
    => (~decoded.threw /\ decoded.value = stored.x)

\* C12: a row whose data is gzip(JSON(pseudo-buffer(gzip(JSON(x))))) decodes
\* to x, never to the wrapper.
C12_DoubleWrap ==
  (decoded.fn # "none" /\ stored.how = "doubleWrap")
    => (~decoded.threw /\ decoded.value = stored.x)

\* a double-wrapped record of a value that itself has the pseudo-buffer shape
\* has been decoded
C12_Witness ==
  /\ decoded.fn = "getFeatureSync"
  /\ stored.how = "doubleWrap"
  /\ isPseudoBuffer(stored.x)

\* C13: a column value that is neither a Buffer nor a well-formed
\* pseudo-buffer object makes the lookup report a failure that its caller can
\* tell apart from the null of an absent record.
C13_InvalidBlobDistinct ==
  (decoded.fn # "none" /\ toBuffer(stored.column).threw)
    => (decoded.threw \/ decoded.value # JSNull)

\* the store file a lookup reads
LookupFile(fn) ==
  IF fn \in {"getGenome", "getGenomeSync"} THEN "genomes.sqlite" ELSE "features.sqlite"

\* op is a lookup that found, on an open handle, a row that does not decode
DecodeFailed(op) ==
  /\ op.op \in LookupFns
  /\ ~op.notOpen
  /\ op.ret # "value"
  /\ StoreFile(op.runPath, LookupFile(op.op)) = "damaged"

\* C14: a decode failure yields null for that record only: the lookups raise
\* for no stored column value (the decoder is the same in every state, it is
\* evaluated on all column values in the initial states); the lookup that
\* fails to decode returns null, changes nothing of the pool, and every lookup
\* on the same api returns after it what it returned before it.
C14_DecodeFailureIsLocal ==
  /\ [](lastOp.op = "init"
         => \A column \in ColumnValues :
              /\ ~decodeRow(column).threw
              /\ decodeBody(column).threw => decodeRow(column).value = JSNull)
  /\ [](DecodeFailed(lastOp) => lastOp.ret = "null")
  /\ [][(DecodeFailed(lastOp') /\ lastOp' # lastOp)
         => /\ UNCHANGED <<disk, dbPool, dbs, apis, timers, lastGet>>
            /\ \A fn \in LookupFns, id \in ULIDs :
                 lookup(fn, dbs', apis'[lastOp'.id], id)
                   = lookup(fn, dbs, apis[lastOp'.id], id)]_vars

\* a lookup on the open handle of a pooled damaged store has found the row
\* that does not decode and returned null
C14_Witness ==
  /\ lastOp.op \in {"getFeature", "getFeatureSync"}
  /\ StoreFile(lastOp.runPath, "features.sqlite") = "damaged"
  /\ lastOp.runPath \in DOMAIN dbPool
  /\ dbPool[lastOp.runPath].api = lastOp.id
  /\ ~lastOp.notOpen
  /\ lastOp.ret = "null"
  /\ decodeBody(StoredRow(lastOp.runPath, "features.sqlite", "id2")).threw

InAlphabet(ulid) == \A i \in 1..Len(ulid) : indexOf(base32Chars, ulid[i]) # -1

\* C15: for two 26-character identifiers A and B over the 32-symbol alphabet,
\* both decode, A < B implies decodeULIDTimestamp(A) <= decodeULIDTimestamp(B),
\* and decoding A again gives the same timestamp.
C15_Monotonic ==
  (Len(stamps) >= 2 /\ InAlphabet(ulids[1]) /\ InAlphabet(ulids[2]))
    => /\ ~stamps[1].threw /\ ~stamps[2].threw
       /\ StringLess(ulids[1], ulids[2]) => StampLeq(stamps[1], stamps[2])
       /\ Len(stamps) = 3 => stamps[3] = stamps[1]

\* two identifiers that differ in the timestamp part have been decoded, the
\* smaller one to the strictly smaller timestamp
C15_Witness ==
  /\ Len(stamps) = 3
  /\ InAlphabet(ulids[1]) /\ InAlphabet(ulids[2])
  /\ StringLess(ulids[1], ulids[2])
  /\ ulids[1][1] = "Y" /\ ulids[2][1] = "Z"
  /\ ~StampLeq(stamps[2], stamps[1])

HasExcluded(ulid, positions) == \E i \in positions : ulid[i] \in ExcludedChars

\* C16 as claimed: every 26-character identifier with I, L, O or U at any of
\* its 26 positions is rejected.
C16_RejectsExcludedAnywhere ==
  (Len(stamps) >= 2 /\ HasExcluded(ulids[1], 1..IdLen)) => stamps[1].threw

\* C16 as amended: an identifier with I, L, O or U among its first 10
\* characters is rejected, naming the first such character; the characters
\* at positions 11 to 26 are not examined.
C16_RejectsExcludedInTimestamp ==
  Len(stamps) >= 2
    => /\ HasExcluded(ulids[1], 1..TimestampChars)
            => /\ stamps[1].threw
               /\ stamps[1].char \in ExcludedChars
       /\ (InAlphabet(substring(ulids[1], 0, TimestampChars)))
            => ~stamps[1].threw

\* an identifier whose tenth character is excluded has been rejected
C16_Witness ==
  /\ Len(stamps) >= 2
  /\ ulids[1][TimestampChars] = "U"
  /\ ~HasExcluded(ulids[1], 1..(TimestampChars - 1))
  /\ stamps[1].threw

\* the directories that exist in tree t, the root apart
DirsOf(t) == {p \in DOMAIN t \ {RootDir} : t[p].exists /\ t[p].isDirectory}
ParentDir(p) == SubSeq(p, 1, Len(p) - 1)
EmittedPaths(r) == {r.evorunFolders[k].fullPath : k \in 1..Len(r.evorunFolders)}
CarriesFailedSuffix(name) ==
  Len(name.parts) > 0 /\ name.parts[Len(name.parts)] = FailedGenes
\* the directories the scan met as an entry of a listing
VisitedDirs(t, r) ==
  {p \in DirsOf(t) : ParentDir(p) \in r.recursed /\ ParentDir(p) \notin r.warned}

\* C17: the scan emits no directory whose name ends in _failed-genes; every
\* directory it visits is emitted or recursed into, never both, unless it is
\* an excluded failed run; a directory that matches the identifier pattern is
\* never recursed into.
C17_EmitOrRecurse ==
  scanned # <<>>
    => LET r == scanned[1]
       IN /\ \A k \in 1..Len(r.evorunFolders) :
               ~CarriesFailedSuffix(r.evorunFolders[k].folderName)
          /\ EmittedPaths(r) \cap r.recursed = {}
          /\ \A p \in VisitedDirs(tree, r) :
               IF ulidPatternTest(tree[p].name)
               THEN /\ p \notin r.recursed
                    /\ p \in EmittedPaths(r) <=> ~CarriesFailedSuffix(tree[p].name)
               ELSE p \in r.recursed /\ p \notin EmittedPaths(r)

\* a scan has read a plain directory that holds a run next to a failed run
C17_Witness ==
  /\ scanned # <<>>
  /\ tree[<<1>>] = PlainDir
  /\ tree[<<1, 1>>] = FailedDir
  /\ tree[<<1, 2>>] = RunDir
  /\ EmittedPaths(scanned[1]) = {<<1, 2>>}
  /\ <<1>> \in scanned[1].recursed

RECURSIVE AncestorsListable(_, _)
\* every directory above p, the root included, can be listed
AncestorsListable(t, p) ==
  IF p = RootDir THEN TRUE
  ELSE t[ParentDir(p)].listable /\ AncestorsListable(t, ParentDir(p))

RECURSIVE ReachableByScan(_, _)
\* every directory above p can be listed and, the root apart, does not match
\* the identifier pattern
ReachableByScan(t, p) ==
  IF p = RootDir THEN TRUE
  ELSE LET d == ParentDir(p)
       IN /\ t[d].listable
          /\ d = RootDir \/ ~ulidPatternTest(t[d].name)
          /\ ReachableByScan(t, d)

IsRun(t, p) ==
  /\ p \in DirsOf(t)
  /\ ulidPatternTest(t[p].name)
  /\ ~CarriesFailedSuffix(t[p].name)

\* C18: every directory under the root whose name matches the identifier
\* pattern and does not end in _failed-genes is emitted, wherever it sits in
\* a tree of listable directories.
C18_CompleteAtAnyDepth ==
  scanned # <<>>
    => \A p \in DOMAIN tree :
         (IsRun(tree, p) /\ AncestorsListable(tree, p)) => p \in EmittedPaths(scanned[1])

\* C19: a directory that cannot be listed is skipped: the scan returns, and
\* it returns every run directory that is reachable through listable
\* directories, also those listed after the directory that failed.
C19_UnlistableSkipped ==
  scanned # <<>>
    => LET r == scanned[1]
       IN /\ \A p \in DOMAIN tree :
               (IsRun(tree, p) /\ ReachableByScan(tree, p)) => p \in EmittedPaths(r)
          /\ \A p \in DOMAIN tree : (p \in r.recursed /\ ~tree[p].listable) <=> p \in r.warned

\* the listing of the first directory failed and the run listed after it was
\* returned
C19_Witness ==
  /\ scanned # <<>>
  /\ tree[<<1>>] = LockedDir
  /\ tree[<<2>>] = RunDir
  /\ <<1>> \in scanned[1].warned
  /\ <<2>> \in EmittedPaths(scanned[1])

\* keys[i] sorts before keys[i + 1] for every i
AscendingKeys(entries) ==
  \A i \in 1..(Len(entries) - 1) : StringLess(entries[i].key, entries[i + 1].key)
DescendingKeys(entries) ==
  \A i \in 1..(Len(entries) - 1) : StringLess(entries[i + 1].key, entries[i].key)
DescendingRuns(runs) ==
  \A i \in 1..(Len(runs) - 1) :
    StampLeq(DateParse(runs[i + 1].timestamp), DateParse(runs[i].timestamp))

\* C20: in the groups of a summary the bucket keys are in descending order,
\* the run-name keys of every bucket in ascending lexicographic order, and the
\* runs of every name group in descending timestamp order, whatever runs
\* were found and in whatever order.
C20_GroupsSorted ==
  (sumRes # <<>> /\ sumRes[1].status = 200)
    => LET groups == sumRes[1].groups
       IN /\ DescendingKeys(groups)
          /\ \A i \in 1..Len(groups) :
               /\ AscendingKeys(groups[i].names)
               /\ \A j \in 1..Len(groups[i].names) :
                    DescendingRuns(groups[i].names[j].runs)

\* C21: a summary request whose effective granularity (the query parameter,
\* or else the configured default, also after POST /config) is not one of
\* day, week, month is answered 400 without any directory scan, and no
\* summary carries a granularity outside that set.
C21_InvalidGranularityRejected ==
  sumRes # <<>>
    => LET q == sumReq[1]
           effective == IF q.query # "" THEN q.query ELSE q.dateGranularity
       IN /\ effective \notin {"day", "week", "month"}
               => /\ sumRes[1].status = 400
                  /\ sumRes[1].scans = 0
                  /\ sumRes[1].groups = <<>>
          /\ sumRes[1].status = 200 => sumRes[1].granularity \in {"day", "week", "month"}

\* a request without the query parameter under a configured default "year"
\* was answered 400 although run directories were there to be found
C21_Witness ==
  /\ sumRes # <<>>
  /\ sumReq[1].query = ""
  /\ sumReq[1].dateGranularity = "year"
  /\ Len(sumReq[1].rootFolders) > 0
  /\ sumRes[1].status = 400
  /\ sumRes[1].scans = 0

\* the runs of a written bucket, with the key of the bucket
RunsOf(groups) ==
  {[key |-> groups[i].key, run |-> groups[i].names[j].runs[k]] :
     <<i, j, k>> \in {t \in (1..Len(groups)) \X (1..MaxRuns) \X (1..MaxRuns) :
                        /\ t[2] <= Len(groups[t[1]].names)
                        /\ t[3] <= Len(groups[t[1]].names[t[2]].runs)}}

\* C22: for every run of a summary the month bucket key is the YYYY-MM
\* prefix, and the day bucket key the YYYY-MM-DD prefix, of the ISO-8601
\* timestamp reported for that run, whatever the time zone of the server.
C22_KeyIsTimestampPrefix ==
  (sumRes # <<>> /\ sumRes[1].status = 200)
    => \A e \in RunsOf(sumRes[1].groups) :
         /\ sumRes[1].granularity = "month" => e.key = SubSeq(e.run.timestamp, 1, 7)
         /\ sumRes[1].granularity = "day" => e.key = SubSeq(e.run.timestamp, 1, 10)

\* the places <<bucket, name group, position>> of the runs written
RunPlaces(groups) ==
  {t \in (1..Len(groups)) \X (1..MaxRuns) \X (1..MaxRuns) :
     /\ t[2] <= Len(groups[t[1]].names)
     /\ t[3] <= Len(groups[t[1]].names[t[2]].runs)}

\* the run directories discovered for a request, root first
DiscoveredBy(q) == q.rootFolders \o (IF q.sync = "present" THEN q.syncFolders ELSE <<>>)

\* C23: totalRuns is the number of run directories discovered, the runs of
\* all groups together are totalRuns less the discovered directories whose
\* identifier does not decode, and every discovered run whose identifier
\* decodes is in exactly one name group of one bucket.
C23_TotalRunsAndGroups ==
  (sumRes # <<>> /\ sumRes[1].status = 200)
    => LET found == DiscoveredBy(sumReq[1])
           groups == sumRes[1].groups
           failing == {i \in 1..Len(found) :
                         decodeULIDTimestamp(found[i].folderName.lead).threw}
       IN /\ sumRes[1].totalRuns = Len(found)
          /\ Cardinality(RunPlaces(groups)) = sumRes[1].totalRuns - Cardinality(failing)
          /\ \A i \in (1..Len(found)) \ failing :
               Cardinality({t \in RunPlaces(groups) :
                              groups[t[1]].names[t[2]].runs[t[3]].relativePath
                                = found[i].relativePath}) = 1

\* p is the root directory or lies below it
UnderRoot(p) == Len(RootDirectory) <= Len(p) /\ SubSeq(p, 1, Len(RootDirectory)) = RootDirectory

\* C24: GET /files/* serves no file outside the root directory: a request
\* whose path resolves to neither the root nor a descendant of it, a
\* directory next to the root whose name begins with the root's name
\* included, is answered 403 without content.
C24_FilesStayUnderRoot ==
  (webRes # <<>> /\ webReq[1].route = "files")
    => /\ webRes[1].status = 200 => UnderRoot(webRes[1].sent)
       /\ ~UnderRoot(pathJoin(RootDirectory, webReq[1].requestedPath))
            => webRes[1] = FileRes(403, NothingSent)

\* C25: every run a summary lists can be fetched through the record routes
\* by its folderName, whether it was found under the root or under the
\* configured sync directory: findEvorunPath resolves a directory, the
\* containment check accepts it and the request reaches getRunDB.
C25_ListedRunsFetchable ==
  (webRes # <<>> /\ webReq[1].route = "record")
    => LET listed == listedFolders(RootDirectory, webReq[1].syncDirectory)
       IN (\E i \in 1..Len(listed) : listed[i].folderName = webReq[1].folderName)
            => /\ webRes[1].status = ReachedGetRunDB
               /\ isDirectory(webReq[1].syncDirectory, webRes[1].evorunPath)

\* the value of the outer decode of a column: gunzip, then JSON.parse
OuterValue(column) ==
  LET n == toBuffer(column)
      g == IF n.threw THEN Thrown ELSE gunzip(n.value)
  IN IF g.threw THEN Thrown ELSE JSONparse(g.value)

\* C26: when the outer decode yields a pseudo-buffer object, the lookup
\* returns the gzip+JSON decode of the inner bytes, or, when that fails, the
\* JSON parse of the inner bytes, or, when both fail, the pseudo-buffer
\* object itself, neither null nor an error; a value that is no pseudo-buffer
\* is returned as it is.
C26_FallbackOrder ==
  (decoded.fn # "none" /\ ~OuterValue(stored.column).threw)
    => LET outer == OuterValue(stored.column).value
           inner == BufferFrom(outer)
           unzipped == gunzip(inner)
           first == IF unzipped.threw THEN Thrown ELSE JSONparse(unzipped.value)
           second == JSONparse(inner)
       IN /\ ~decoded.threw
          /\ ~isPseudoBuffer(outer) => decoded.value = outer
          /\ (isPseudoBuffer(outer) /\ ~first.threw) => decoded.value = first.value
          /\ (isPseudoBuffer(outer) /\ first.threw /\ ~second.threw)
               => decoded.value = second.value
          /\ (isPseudoBuffer(outer) /\ first.threw /\ second.threw)
               => decoded.value = outer /\ decoded.value # JSNull

\* a wrapper of compressed bytes that are no JSON text came back as it was
C26_Witness ==
  /\ decoded.fn = "getGenomeSync"
  /\ stored.column = Column(TRUE, gzip(JSONstringify(pseudoBuffer(gzip(<<"raw">>)))))
  /\ ~decoded.threw
  /\ decoded.value = pseudoBuffer(gzip(<<"raw">>))

\* C28: a getRunDB call that fails while it opens the stores creates no
\* pool entry and no timer and leaves open no handle that it opened.
C28_FailedOpenLeavesNothing ==
  [][(/\ lastOp'.op = "getRunDB"
      /\ lastOp'.ret = "throw"
      /\ calls' # calls)
       => /\ dbPool' = dbPool
          /\ timers' = timers
          /\ \A h \in (DOMAIN dbs') \ (DOMAIN dbs) : ~dbs'[h].open]_vars

\* 2^48 milliseconds as days, seconds of the day and milliseconds
TwoPow48 == Stamp(3257812, 19910, 656)

RECURSIVE PowMod(_, _, _)
\* base^exp modulo m
PowMod(base, exp, m) == IF exp = 0 THEN 1 % m ELSE (PowMod(base, exp - 1, m) * base) % m

RECURSIVE Base32Mod(_, _, _)
\* the big-endian base-32 value of the characters of s from position i on,
\* modulo m
Base32Mod(s, i, m) ==
  IF i > Len(s) THEN 0
  ELSE (indexOf(base32Chars, s[i]) * PowMod(32, Len(s) - i, m) + Base32Mod(s, i + 1, m)) % m

\* the milliseconds of a timestamp modulo m
StampMod(t, m) ==
  ((t.days % m) * (86400000 % m) + (t.secs % m) * (1000 % m) + t.ms) % m

\* pairwise coprime moduli whose product exceeds 2^50
Moduli == {32768, 32767, 32765, 32763}

\* t is the base-32 value of the first ten characters of ulid: t is a
\* timestamp below 2^50 ms that agrees with the value modulo every modulus
IsBase32Value(t, ulid) ==
  /\ t.days \in 0..13031248 /\ t.secs \in 0..(SecsPerDay - 1) /\ t.ms \in 0..999
  /\ \A m \in Moduli : StampMod(t, m) = Base32Mod(SubSeq(ulid, 1, TimestampChars), 1, m)

\* C27: for every identifier that decodeULIDTimestamp accepts, the decoded
\* value is the big-endian base-32 value of its first 10 characters and is
\* below 2^48.
C27_ValueFitsIn48Bits ==
  \A i \in 1..Len(stamps) :
    ~stamps[i].threw
      => /\ IsBase32Value(stamps[i], ulids[IF i = 3 THEN 1 ELSE i])
         /\ StampLeq(stamps[i], TwoPow48) /\ stamps[i] # TwoPow48

\* the local calendar day of the timestamp reported for a run
LocalDay(run, tz) == LocalTime(DateParse(run.timestamp), tz).days

\* C29: with week granularity two runs whose timestamps fall on the same
\* local calendar day are in the same week bucket, a run at local midnight
\* included, and the week number is between 1 and 54.
C29_SameDaySameWeek ==
  (sumRes # <<>> /\ sumRes[1].status = 200 /\ sumRes[1].granularity = "week")
    => LET entries == RunsOf(sumRes[1].groups)
       IN /\ \A e \in entries : parseInt(SubSeq(e.key, 7, 8)) \in 1..54
          /\ \A e1, e2 \in entries :
               LocalDay(e1.run, sumReq[1].tz) = LocalDay(e2.run, sumReq[1].tz)
                 => e1.key = e2.key

\* the handler of a sync request created, wrote or listed something
TouchedDisk(res) == res.made # {} \/ res.written # {} \/ res.listed # {}

\* C30: a sync endpoint creates a directory, writes a file or lists a
\* directory only for a request whose x-sync-api-key header equals one of
\* the configured keys; with no keys configured the answer is 503, with a
\* missing or unknown key 401, and the filesystem is left as it was.
C30_SyncNeedsKey ==
  (webRes # <<>> /\ webReq[1].route = "sync")
    => LET r == webReq[1]
       IN /\ TouchedDisk(webRes[1]) => (r.key # "" /\ r.key \in r.syncApiKeys)
          /\ r.syncApiKeys = {} => (webRes[1].status = 503 /\ ~TouchedDisk(webRes[1]))
          /\ (r.syncApiKeys # {} /\ (r.key = "" \/ r.key \notin r.syncApiKeys))
               => (webRes[1].status = 401 /\ ~TouchedDisk(webRes[1]))

\* an upload with an unknown key was answered 401, and the same upload with
\* a configured key is one that writes a file
C30_Witness ==
  /\ webRes # <<>>
  /\ webReq[1].route = "sync"
  /\ webReq[1].endpoint = "upload"
  /\ webReq[1].key = "k3"
  /\ webReq[1].syncApiKeys # {}
  /\ webRes[1] = Untouched(401)
  /\ TouchedDisk(syncRoute([webReq[1] EXCEPT !.key = "k1"]))

====
